---------------------------- MODULE Spec2Model ----------------------------
(***************************************************************************)
(* DanmuQueue: the queue core (app/queue.py), the controller               *)
(* (app/context.py), the admin routes that touch the queue (app/server.py),*)
(* the ingestion channel between the chat client (app/danmaku.py) and the  *)
(* single consumer, and the hub of the subscribed pages (app/ws.py).       *)
(*                                                                         *)
(* Strings are sequences of one-character strings, so that str.strip() and *)
(* the `in` substring test are computed and not assumed.  None and "" are  *)
(* both the empty sequence: the only place that reads an optional string   *)
(* (context.py:92, `ev.user_key or ev.uname`) treats them alike.           *)
(* QueueItem.joined_at is written once by enqueue and read by no           *)
(* operation; it is left out of the item.                                  *)
(***************************************************************************)
EXTENDS Integers, Sequences, FiniteSets, TLC

VARIABLES
    current,      \* QueueState.current: <<>> (None) or <<item>>
    waiting,      \* QueueState.waiting: sequence of items
    cfg,          \* AppContext.cfg
    runtime,      \* AppContext.runtime (RuntimeState)
    lock,         \* AppContext._lock: "free" or the task holding it
    starter,      \* a start_runtime call suspended in verify_sessdata
    danmaku_task, \* AppContext._danmaku_task: "none", or where its task is
    client,       \* what build_client made for that task: <<>> or <<client>>
    orphans,      \* tasks cancelled in join() that are still closing down
    now,          \* the wall clock, in minutes
    stream,       \* the chat lines the room will still deliver
    event_q,      \* AppContext._event_q: the items of the asyncio.Queue
    putters,      \* asyncio.Queue._putters: suspended put() calls, in order
    woken,        \* put() calls whose future was resolved, in wake-up order
    pushed,       \* number of put_event calls started (numbers the events)
    consumer,     \* position of _consumer_loop and the event it holds
    consumed,     \* ids of the events process_event was applied to, in order
    callers,      \* concurrent direct callers of process_event
    ret,          \* what the last operation was called with and returned
    emitted,      \* the payloads handed to WsHub.broadcast by the last step
    conns,        \* WsHub._conns: the registered subscribers
    inflight,     \* the broadcasts whose gather() has not returned, in order
    pause_checker \* _pause_checker_loop: "sleeping", or how its task ended

qvars == <<current, waiting>>
cvars == <<cfg, runtime, lock, starter, danmaku_task>>
ivars == <<stream, event_q, putters, woken, pushed, consumer, consumed>>
dvars == <<client, orphans>>
kvars == <<callers, now, pause_checker>>
hvars == <<conns, inflight>>
vars  == <<current, waiting, cfg, runtime, lock, starter, danmaku_task,
          client, orphans, now,
           stream, event_q, putters, woken, pushed, consumer, consumed,
           callers, ret, emitted, conns, inflight, pause_checker>>

(***************************************************************************)
(* Bounds of the model.                                                    *)
(***************************************************************************)
\* Largest configured queue.max_queue (config.py:24 sets no limit).
MaxQueue == 2
\* Largest capacity QueueCore is driven with on its own.
MaxCapacity == 4
\* Capacity of the ingestion channel.  The source builds
\* asyncio.Queue(maxsize=200) (context.py:41); the model scales the
\* capacity down so that a full channel and suspended producers are reached.
EventQMaxsize == 2
\* Number of put_event calls a behaviour of the ingestion pipeline starts.
MaxPush == 4
\* Cancelled chat-client tasks that may be closing down at one time.
MaxOrphans == 1
\* The last minute the clock reaches.
MaxNow == 2
\* Broadcasts that may be in delivery at one time.
MaxInflight == 2

(***************************************************************************)
(* Strings.                                                                *)
(***************************************************************************)
RECURSIVE LStrip(_)
LStrip(s) == IF s # <<>> /\ Head(s) = " " THEN LStrip(Tail(s)) ELSE s

RECURSIVE RStrip(_)
RStrip(s) ==
    IF s # <<>> /\ s[Len(s)] = " " THEN RStrip(SubSeq(s, 1, Len(s) - 1)) ELSE s

\* str.strip()
Strip(s) == RStrip(LStrip(s))

\* `sub in s` for str
Contains(sub, s) ==
    \E i \in 0..(Len(s) - Len(sub)) : SubSeq(s, i + 1, i + Len(sub)) = sub

\* str.isdigit() and int() on one character
Digits == <<"0", "1", "2", "3", "4", "5", "6", "7", "8", "9">>

IsDigit(c) == \E d \in 1..10 : Digits[d] = c

DigitValue(c) == (CHOOSE d \in 1..10 : Digits[d] = c) - 1

\* _is_valid_hhmm as it would be if it took 24 for an hour
_is_valid_hhmm_hour24(s) ==
    /\ Len(s) = 5
    /\ s[3] = ":"
    /\ \A i \in {1, 2, 4, 5} : IsDigit(s[i])
    /\ 10 * DigitValue(s[1]) + DigitValue(s[2]) <= 24
    /\ 10 * DigitValue(s[4]) + DigitValue(s[5]) <= 59

\* _is_valid_hhmm, for the two-digit fields a five-character string has
_is_valid_hhmm(s) ==
    /\ Len(s) = 5
    /\ s[3] = ":"
    /\ \A i \in {1, 2, 4, 5} : IsDigit(s[i])
    /\ 10 * DigitValue(s[1]) + DigitValue(s[2]) <= 23
    /\ 10 * DigitValue(s[4]) + DigitValue(s[5]) <= 59

\* _next_timestamp_for_time_str as it would be without the step to tomorrow
next_timestamp_today(time_str, t) ==
    IF time_str = <<>> \/ ~_is_valid_hhmm(time_str)
    THEN <<>>
    ELSE LET hh  == 10 * DigitValue(time_str[1]) + DigitValue(time_str[2])
             mm  == 10 * DigitValue(time_str[4]) + DigitValue(time_str[5])
             day == t \div (24 * 60)
         IN  <<day * (24 * 60) + hh * 60 + mm>>

\* _next_timestamp_for_time_str at clock t: <<>> (None), or the minute of
\* the next HH:MM, tomorrow's when today's is not after t
_next_timestamp_for_time_str(time_str, t) ==
    IF time_str = <<>> \/ ~_is_valid_hhmm(time_str)
    THEN <<>>
    ELSE LET hh     == 10 * DigitValue(time_str[1]) + DigitValue(time_str[2])
             mm     == 10 * DigitValue(time_str[4]) + DigitValue(time_str[5])
             day    == t \div (24 * 60)
             target == day * (24 * 60) + hh * 60 + mm
         IN  IF target <= t THEN <<target + 24 * 60>> ELSE <<target>>

\* The user keys that can end up in the queue.
Users == { <<"a">>, <<"b">>, <<"c">>, <<"d">> }

(***************************************************************************)
(* app/queue.py: QueueState and QueueCore.  Each operation is a function   *)
(* of the queue (cur, wt) that returns the new queue and the return value. *)
(***************************************************************************)
QueueItem(user_key, uname) ==
    [user_key |-> user_key, uname |-> uname, marked |-> FALSE]

\* total_len as it would be if the current slot were not counted
total_len_waiting_only(cur, wt) == Len(wt)

total_len(cur, wt) == (IF cur # <<>> THEN 1 ELSE 0) + Len(wt)

\* has_user as it would be if only the waiting list were searched
has_user_waiting_only(cur, wt, user_key) ==
    \E i \in 1..Len(wt) : wt[i].user_key = user_key

has_user(cur, wt, user_key) ==
    IF cur # <<>> /\ cur[1].user_key = user_key
    THEN TRUE
    ELSE \E i \in 1..Len(wt) : wt[i].user_key = user_key

to_list(cur, wt) == cur \o wt

\* index of the first waiting item with this key, 0 when there is none
WaitingIndex(wt, user_key) ==
    IF \E i \in 1..Len(wt) : wt[i].user_key = user_key
    THEN CHOOSE i \in 1..Len(wt) :
            /\ wt[i].user_key = user_key
            /\ \A j \in 1..(i - 1) : wt[j].user_key # user_key
    ELSE 0

\* list.pop(i), 1-based
PopAt(wt, i) == SubSeq(wt, 1, i - 1) \o SubSeq(wt, i + 1, Len(wt))

\* enqueue as it would be with `>` for `>=` in the capacity test
enqueue_off_by_one(cur, wt, user_key, uname, max_queue) ==
    IF has_user(cur, wt, user_key)
    THEN [current |-> cur, waiting |-> wt, ok |-> FALSE, reason |-> "duplicate"]
    ELSE IF total_len(cur, wt) > max_queue
    THEN [current |-> cur, waiting |-> wt, ok |-> FALSE, reason |-> "full"]
    ELSE IF cur = <<>>
    THEN [current |-> <<QueueItem(user_key, uname)>>, waiting |-> wt,
          ok |-> TRUE, reason |-> "ok"]
    ELSE [current |-> cur, waiting |-> Append(wt, QueueItem(user_key, uname)),
          ok |-> TRUE, reason |-> "ok"]

\* enqueue as it would be with the capacity test ahead of the duplicate test
enqueue_full_first(cur, wt, user_key, uname, max_queue) ==
    IF total_len(cur, wt) >= max_queue
    THEN [current |-> cur, waiting |-> wt, ok |-> FALSE, reason |-> "full"]
    ELSE IF has_user(cur, wt, user_key)
    THEN [current |-> cur, waiting |-> wt, ok |-> FALSE, reason |-> "duplicate"]
    ELSE IF cur = <<>>
    THEN [current |-> <<QueueItem(user_key, uname)>>, waiting |-> wt,
          ok |-> TRUE, reason |-> "ok"]
    ELSE [current |-> cur, waiting |-> Append(wt, QueueItem(user_key, uname)),
          ok |-> TRUE, reason |-> "ok"]

\* enqueue as it would be if a duplicate were reported as a change
enqueue_duplicate_changed(cur, wt, user_key, uname, max_queue) ==
    IF has_user(cur, wt, user_key)
    THEN [current |-> cur, waiting |-> wt, ok |-> TRUE, reason |-> "duplicate"]
    ELSE IF total_len(cur, wt) >= max_queue
    THEN [current |-> cur, waiting |-> wt, ok |-> FALSE, reason |-> "full"]
    ELSE IF cur = <<>>
    THEN [current |-> <<QueueItem(user_key, uname)>>, waiting |-> wt,
          ok |-> TRUE, reason |-> "ok"]
    ELSE [current |-> cur, waiting |-> Append(wt, QueueItem(user_key, uname)),
          ok |-> TRUE, reason |-> "ok"]

\* enqueue as it would be if the new item went to the front of waiting
enqueue_at_front(cur, wt, user_key, uname, max_queue) ==
    IF has_user(cur, wt, user_key)
    THEN [current |-> cur, waiting |-> wt, ok |-> FALSE, reason |-> "duplicate"]
    ELSE IF total_len(cur, wt) >= max_queue
    THEN [current |-> cur, waiting |-> wt, ok |-> FALSE, reason |-> "full"]
    ELSE IF cur = <<>>
    THEN [current |-> <<QueueItem(user_key, uname)>>, waiting |-> wt,
          ok |-> TRUE, reason |-> "ok"]
    ELSE [current |-> cur, waiting |-> <<QueueItem(user_key, uname)>> \o wt,
          ok |-> TRUE, reason |-> "ok"]

enqueue(cur, wt, user_key, uname, max_queue) ==
    IF has_user(cur, wt, user_key)
    THEN [current |-> cur, waiting |-> wt, ok |-> FALSE, reason |-> "duplicate"]
    ELSE IF total_len(cur, wt) >= max_queue
    THEN [current |-> cur, waiting |-> wt, ok |-> FALSE, reason |-> "full"]
    ELSE IF cur = <<>>
    THEN [current |-> <<QueueItem(user_key, uname)>>, waiting |-> wt,
          ok |-> TRUE, reason |-> "ok"]
    ELSE [current |-> cur, waiting |-> Append(wt, QueueItem(user_key, uname)),
          ok |-> TRUE, reason |-> "ok"]

\* remove as it would be if removing current did not promote waiting[0]
remove_no_promote(cur, wt, user_key) ==
    IF cur # <<>> /\ cur[1].user_key = user_key
    THEN [current |-> <<>>, waiting |-> wt, ok |-> TRUE]
    ELSE LET i == WaitingIndex(wt, user_key) IN
         IF i # 0
         THEN [current |-> cur, waiting |-> PopAt(wt, i), ok |-> TRUE]
         ELSE [current |-> cur, waiting |-> wt, ok |-> FALSE]

\* remove as it would be if removing current promoted the last waiting item
remove_promote_last(cur, wt, user_key) ==
    IF cur # <<>> /\ cur[1].user_key = user_key
    THEN IF wt # <<>>
         THEN [current |-> <<wt[Len(wt)]>>,
               waiting |-> SubSeq(wt, 1, Len(wt) - 1), ok |-> TRUE]
         ELSE [current |-> <<>>, waiting |-> wt, ok |-> TRUE]
    ELSE LET i == WaitingIndex(wt, user_key) IN
         IF i # 0
         THEN [current |-> cur, waiting |-> PopAt(wt, i), ok |-> TRUE]
         ELSE [current |-> cur, waiting |-> wt, ok |-> FALSE]

remove(cur, wt, user_key) ==
    IF cur # <<>> /\ cur[1].user_key = user_key
    THEN IF wt # <<>>
         THEN [current |-> <<Head(wt)>>, waiting |-> Tail(wt), ok |-> TRUE]
         ELSE [current |-> <<>>, waiting |-> wt, ok |-> TRUE]
    ELSE LET i == WaitingIndex(wt, user_key) IN
         IF i # 0
         THEN [current |-> cur, waiting |-> PopAt(wt, i), ok |-> TRUE]
         ELSE [current |-> cur, waiting |-> wt, ok |-> FALSE]

\* pin_top as it would be if the item changed places with waiting[0]
pin_top_swap(cur, wt, user_key) ==
    IF cur # <<>> /\ cur[1].user_key = user_key
    THEN [current |-> cur, waiting |-> wt, ok |-> FALSE]
    ELSE LET idx == WaitingIndex(wt, user_key) IN
         IF idx = 0
         THEN [current |-> cur, waiting |-> wt, ok |-> FALSE]
         ELSE [current |-> cur,
               waiting |-> [wt EXCEPT ![1] = wt[idx], ![idx] = wt[1]],
               ok |-> TRUE]

pin_top(cur, wt, user_key) ==
    IF cur # <<>> /\ cur[1].user_key = user_key
    THEN [current |-> cur, waiting |-> wt, ok |-> FALSE]
    ELSE LET idx == WaitingIndex(wt, user_key) IN
         IF idx = 0
         THEN [current |-> cur, waiting |-> wt, ok |-> FALSE]
         ELSE [current |-> cur, waiting |-> <<wt[idx]>> \o PopAt(wt, idx),
               ok |-> TRUE]

set_marked(cur, wt, user_key, marked) ==
    IF cur # <<>> /\ cur[1].user_key = user_key
    THEN [current |-> <<[cur[1] EXCEPT !.marked = marked]>>, waiting |-> wt,
          ok |-> TRUE]
    ELSE LET i == WaitingIndex(wt, user_key) IN
         IF i # 0
         THEN [current |-> cur,
               waiting |-> [wt EXCEPT ![i] = [@ EXCEPT !.marked = marked]],
               ok |-> TRUE]
         ELSE [current |-> cur, waiting |-> wt, ok |-> FALSE]

\* QueueState.to_dict
to_dict(cur, wt, max_queue) ==
    [items     |-> to_list(cur, wt),
     max_queue |-> max_queue,
     total     |-> Len(to_list(cur, wt)),
     is_full   |-> Len(to_list(cur, wt)) >= max_queue]


(***************************************************************************)
(* app/config.py: the configuration the controller reads, and the choice   *)
(* of the chat mode.                                                       *)
(***************************************************************************)
OpenLiveConfig(access_key, access_secret, app_id, identity_code) ==
    [access_key |-> access_key, access_secret |-> access_secret,
     app_id |-> app_id, identity_code |-> identity_code]

WebDanmakuConfig(sessdata, room_id, auto_fetch_cookie) ==
    [sessdata |-> sessdata, room_id |-> room_id,
     auto_fetch_cookie |-> auto_fetch_cookie]

BiliConfig(mode, open_live, web) ==
    [mode |-> mode, open_live |-> open_live, web |-> web]

\* The auto-pause settings are QueueConfig's defaults (config.py:27-28)
\* unless WithAutoPause replaces them.
AppConfig(keyword, match_mode, max_queue, test_enabled, bilibili) ==
    [keyword |-> keyword, match_mode |-> match_mode, max_queue |-> max_queue,
     test_enabled |-> test_enabled, bilibili |-> bilibili,
     auto_pause_time |-> <<>>, pause_check_interval_seconds |-> 60]

WithAutoPause(c, time_str) == [c EXCEPT !.auto_pause_time = time_str]

_open_live_is_complete(ol) ==
    /\ Strip(ol.access_key) # <<>>
    /\ Strip(ol.access_secret) # <<>>
    /\ ol.app_id > 0
    /\ Strip(ol.identity_code) # <<>>

_web_checks(bili) ==
    IF Strip(bili.web.sessdata) = <<>>
    THEN [mode |-> "", err |-> "web.sessdata is required"]
    ELSE IF bili.web.room_id <= 0
    THEN [mode |-> "", err |-> "web.room_id is required"]
    ELSE [mode |-> "web", err |-> ""]

\* select_danmaku_mode, on the bilibili part of the configuration
select_danmaku_mode(bili) ==
    IF bili.mode = "open_live"
    THEN IF _open_live_is_complete(bili.open_live)
         THEN [mode |-> "open_live", err |-> ""]
         ELSE [mode |-> "", err |-> "open_live config incomplete"]
    ELSE IF bili.mode = "web"
    THEN _web_checks(bili)
    ELSE IF Strip(bili.web.sessdata) # <<>>
    THEN _web_checks(bili)
    ELSE IF _open_live_is_complete(bili.open_live)
    THEN [mode |-> "open_live", err |-> ""]
    ELSE [mode |-> "", err |-> "missing danmaku config"]

(***************************************************************************)
(* Initial values.  AppContext.__init__ (context.py:20-46): the queue is   *)
(* empty, the runtime is stopped, nothing is in flight; the consumer and   *)
(* the pause checker are started with the server (context.py:48-52).       *)
(***************************************************************************)
\* `int(x or 60)`
IntOr60(x) == IF x = 0 THEN 60 ELSE x

\* RuntimeState as __init__ builds it from the configuration c; the trigger
\* queue_pause_until_ts is <<>> (None) or <<minute>>
RuntimeState(c) ==
    [status                     |-> "stopped",
     test_enabled               |-> c.test_enabled,
     danmaku_status             |-> "idle",
     danmaku_error              |-> "",
     active_mode                |-> "",
     queue_paused               |-> FALSE,
     queue_pause_reason         |-> "",
     queue_auto_pause_time      |-> c.auto_pause_time,
     queue_pause_until_ts       |-> <<>>,
     queue_pause_check_interval |-> IntOr60(c.pause_check_interval_seconds)]

\* DanmakuEvent
DanmakuEvent(uname, msg, user_key) ==
    [uname |-> uname, msg |-> msg, user_key |-> user_key]

NoEvent == DanmakuEvent(<<>>, <<>>, <<>>)

NoRet == [op |-> "init", key |-> <<>>, ok |-> FALSE, reason |-> ""]

Return(op, key, ok, reason) ==
    [op |-> op, key |-> key, ok |-> ok, reason |-> reason]

\* open-platform credentials that are complete, and none at all
OpenLiveSet == OpenLiveConfig(<<"i">>, <<"s">>, 1, <<"c">>)
OpenLiveUnset == OpenLiveConfig(<<>>, <<>>, 0, <<>>)

InitRest ==
    /\ current = <<>>
    /\ waiting = <<>>
    /\ lock = "free"
    /\ starter = [pc |-> "none", mode |-> "", sess |-> <<>>]
    /\ event_q = <<>>
    /\ putters = <<>>
    /\ woken = <<>>
    /\ pushed = 0
    /\ consumer = [pc |-> "get", id |-> 0, ev |-> NoEvent]
    /\ consumed = <<>>
    /\ callers = [u \in Users |-> "idle"]
    /\ orphans = 0
    /\ now = 0
    /\ ret = NoRet
    /\ emitted = <<>>
    /\ conns = {}
    /\ inflight = <<>>
    /\ pause_checker = "sleeping"

(***************************************************************************)
(* app/context.py: the admission rule and the snapshot.                    *)
(***************************************************************************)
Rejected(reason) ==
    [current |-> current, waiting |-> waiting, ok |-> FALSE, reason |-> reason]

\* process_event as it would be with the pause test ahead of the status test
process_event_paused_first(ev) ==
    IF runtime.queue_paused THEN Rejected("paused")
    ELSE IF runtime.status # "running" THEN Rejected("not_running")
    ELSE LET keyword == Strip(cfg.keyword) IN
    IF keyword = <<>> THEN Rejected("no_keyword")
    ELSE LET msg == Strip(ev.msg) IN
    IF cfg.match_mode = "exact" /\ msg # keyword THEN Rejected("no_match")
    ELSE IF cfg.match_mode # "exact" /\ ~Contains(keyword, msg)
    THEN Rejected("no_match")
    ELSE LET user_key ==
                Strip(IF ev.user_key # <<>> THEN ev.user_key ELSE ev.uname) IN
    IF user_key = <<>> THEN Rejected("no_user_key")
    ELSE enqueue(current, waiting, user_key, ev.uname, cfg.max_queue)

\* AppContext.process_event, the body under the lock: the new queue and the
\* returned (changed, reason).
process_event(ev) ==
    IF runtime.status # "running" THEN Rejected("not_running")
    ELSE IF runtime.queue_paused THEN Rejected("paused")
    ELSE LET keyword == Strip(cfg.keyword) IN
    IF keyword = <<>> THEN Rejected("no_keyword")
    ELSE LET msg == Strip(ev.msg) IN
    IF cfg.match_mode = "exact" /\ msg # keyword THEN Rejected("no_match")
    ELSE IF cfg.match_mode # "exact" /\ ~Contains(keyword, msg)
    THEN Rejected("no_match")
    ELSE LET user_key ==
                Strip(IF ev.user_key # <<>> THEN ev.user_key ELSE ev.uname) IN
    IF user_key = <<>> THEN Rejected("no_user_key")
    ELSE enqueue(current, waiting, user_key, ev.uname, cfg.max_queue)

\* state_payload, line 201
secret_mask == <<"*", "*", "*", "*", "*", "*", "*", "*">>

\* a secret as it would be shown if the payload echoed the configuration
MaskSecret_echo(secret) == secret

\* state_payload, lines 248 and 253: `secret_mask if <secret> else ""`
MaskSecret(secret) == IF secret # <<>> THEN secret_mask ELSE <<>>

\* AppContext.state_payload of a given state
state_payload(cur, wt, rt, c) ==
    [runtime |-> [status             |-> rt.status,
                  test_enabled       |-> rt.test_enabled,
                  danmaku_status     |-> rt.danmaku_status,
                  danmaku_error      |-> rt.danmaku_error,
                  active_mode        |-> rt.active_mode,
                  queue_paused       |-> rt.queue_paused,
                  queue_pause_reason |-> rt.queue_pause_reason,
                  queue_auto_pause_time |-> rt.queue_auto_pause_time,
                  queue_pause_until_ts  |-> rt.queue_pause_until_ts],
     config  |-> [keyword |-> c.keyword, max_queue |-> c.max_queue,
                  match_mode |-> c.match_mode,
                  bilibili |->
                    [mode |-> c.bilibili.mode,
                     open_live |->
                       [access_key    |-> c.bilibili.open_live.access_key,
                        access_secret |->
                          MaskSecret(c.bilibili.open_live.access_secret),
                        app_id        |-> c.bilibili.open_live.app_id,
                        identity_code |-> c.bilibili.open_live.identity_code],
                     web |->
                       [sessdata |-> MaskSecret(c.bilibili.web.sessdata),
                        room_id  |-> c.bilibili.web.room_id,
                        auto_fetch_cookie |->
                          c.bilibili.web.auto_fetch_cookie]]],
     queue   |-> [items        |-> to_dict(cur, wt, c.max_queue).items,
                  max_queue    |-> to_dict(cur, wt, c.max_queue).max_queue,
                  total        |-> to_dict(cur, wt, c.max_queue).total,
                  is_full      |-> to_dict(cur, wt, c.max_queue).is_full,
                  paused       |-> rt.queue_paused,
                  pause_reason |-> rt.queue_pause_reason,
                  auto_pause_time |-> rt.queue_auto_pause_time]]

(***************************************************************************)
(* app/ws.py: the hub.  broadcast copies the registry (the hub's own lock  *)
(* is never held across a suspension), returns at once when it is empty,   *)
(* and otherwise awaits gather() over one _safe_send per subscriber; the   *)
(* sends run on later iterations of the event loop, each succeeding or     *)
(* raising on its own, and gather() returns when all of them are over.     *)
(***************************************************************************)
\* a broadcast in delivery: who called it, the payload, the subscribers it
\* was started for, those whose send is still to end, those that received
\* it and those whose send raised
Delivery(by, payload, targets) ==
    [by |-> by, payload |-> payload, targets |-> targets,
     pending |-> targets, got |-> {}, failed |-> {}]

\* WsHub.broadcast called with the payloads of this step, by the operation
\* that returns in this step
WsBroadcast ==
    /\ conns' = conns
    /\ IF emitted' = <<>> \/ conns = {}
       THEN inflight' = inflight
       ELSE /\ Len(inflight) < MaxInflight
            /\ inflight' = Append(inflight,
                                  Delivery(ret'.op, emitted'[1], conns))

\* broadcast_state as it would be if the payload were built before the change
broadcast_stale == <<state_payload(current, waiting, runtime, cfg)>>

\* AppContext.broadcast_state called at the end of a step: the payload is
\* built from the state the step leaves.
broadcast_state == <<state_payload(current', waiting', runtime', cfg')>>

(***************************************************************************)
(* app/context.py: the lifecycle.  A coroutine runs without interruption   *)
(* up to its next suspension, so each action is one such stretch.  The     *)
(* body of `async with self._lock` needs the lock free.  start_runtime is  *)
(* the one operation that suspends inside the lock (verify_sessdata's      *)
(* network request); it is two actions with the lock held in between.      *)
(***************************************************************************)
\* what fetch_sessdata_from_browser can return: a cookie value, or an error
FetchOutcomes ==
    { [sessdata |-> <<"s">>, err |-> ""],
      [sessdata |-> <<>>, err |-> "no SESSDATA in the browsers"] }

\* AppContext._prepare_runtime_config on configuration c, up to its only
\* suspension: the error, or the mode, the SESSDATA in effect and whether
\* verify_sessdata is awaited next
prepare(c, fetch) ==
    LET web  == c.bilibili.web
        sess == IF web.auto_fetch_cookie THEN fetch.sessdata ELSE web.sessdata
        sel  == select_danmaku_mode(
                    [c.bilibili EXCEPT !.web.sessdata = sess])
    IN  IF web.auto_fetch_cookie /\ fetch.err # ""
        THEN [mode |-> "", err |-> fetch.err, verify |-> FALSE, sess |-> <<>>]
        ELSE IF sel.err # ""
        THEN [mode |-> "", err |-> sel.err, verify |-> FALSE, sess |-> <<>>]
        ELSE [mode |-> sel.mode, err |-> "", verify |-> sel.mode = "web",
              sess |-> sess]

_prepare_runtime_config(fetch) == prepare(cfg, fetch)

NoStarter == [pc |-> "none", mode |-> "", sess |-> <<>>]

\* build_client(effective_cfg, mode, put_event): the client of a new task
Client(c, mode, sess) ==
    <<[mode |-> mode, bili |-> [c.bilibili EXCEPT !.web.sessdata = sess]]>>

\* `self._danmaku_task and not self._danmaku_task.done()`
TaskAlive == danmaku_task \in {"running", "crashing"}

\* start_runtime's error branch as it would be if the chat client had been
\* started before the configuration was checked
StartFailed_with_task(err) ==
    /\ runtime' = [runtime EXCEPT !.danmaku_status = "error",
                                  !.danmaku_error = err,
                                  !.active_mode = ""]
    /\ danmaku_task' = "running"
    /\ lock' = "free"
    /\ starter' = NoStarter
    /\ ret' = Return("start_runtime", <<>>, FALSE, err)
    /\ UNCHANGED <<qvars, cfg, ivars, dvars, kvars>>
    /\ emitted' = <<>>
    /\ WsBroadcast

\* start_runtime, lines 106-110: the error is recorded and returned
StartFailed(err) ==
    /\ runtime' = [runtime EXCEPT !.danmaku_status = "error",
                                  !.danmaku_error = err,
                                  !.active_mode = ""]
    /\ lock' = "free"
    /\ starter' = NoStarter
    /\ ret' = Return("start_runtime", <<>>, FALSE, err)
    /\ UNCHANGED <<qvars, cfg, danmaku_task, ivars, dvars, kvars>>
    /\ emitted' = <<>>
    /\ WsBroadcast

\* start_runtime, lines 112-128, with _start_danmaku_locked: a task is
\* created unless one is alive
StartSucceeded(mode, sess) ==
    /\ runtime' =
         [runtime EXCEPT
            !.status = "running",
            !.danmaku_status = "running",
            !.danmaku_error = "",
            !.active_mode = mode,
            !.test_enabled = cfg.test_enabled,
            !.queue_paused = FALSE,
            !.queue_pause_reason = "",
            !.queue_auto_pause_time = cfg.auto_pause_time,
            !.queue_pause_check_interval =
                IntOr60(cfg.pause_check_interval_seconds),
            !.queue_pause_until_ts =
                _next_timestamp_for_time_str(cfg.auto_pause_time, now)]
    /\ IF TaskAlive
       THEN UNCHANGED <<danmaku_task, client>>
       ELSE danmaku_task' = "running" /\ client' = Client(cfg, mode, sess)
    /\ lock' = "free"
    /\ starter' = NoStarter
    /\ ret' = Return("start_runtime", <<>>, TRUE, "")
    /\ UNCHANGED <<qvars, cfg, ivars, orphans, kvars>>
    /\ emitted' = broadcast_state
    /\ WsBroadcast

StartRuntime(fetch) ==
    /\ lock = "free"
    /\ LET p == _prepare_runtime_config(fetch) IN
       IF p.err # "" THEN StartFailed(p.err)
       ELSE IF p.verify
       THEN /\ lock' = "start_runtime"
            /\ starter' = [pc |-> "verify", mode |-> p.mode, sess |-> p.sess]
            /\ ret' = Return("start_runtime:verify", <<>>, FALSE, "")
            /\ UNCHANGED <<qvars, cfg, runtime, danmaku_task, ivars, dvars,
                           kvars>>
            /\ emitted' = <<>>
            /\ WsBroadcast
       ELSE StartSucceeded(p.mode, p.sess)

\* verify_sessdata answers; start_runtime goes on from line 389
VerifySessdataDone(valid) ==
    /\ starter.pc = "verify"
    /\ IF valid THEN StartSucceeded(starter.mode, starter.sess)
                ELSE StartFailed("SESSDATA invalid")

\* Task.cancel() on the chat-client task, when it is alive: a task waiting
\* in join() goes on to close its client (danmaku.py:99-102); a task
\* already closing after a failure ends with the cancellation.
OrphansAfterCancel ==
    IF danmaku_task = "running" THEN orphans + 1 ELSE orphans

\* stop_runtime as it would be if it left active_mode as it was (without
\* line 137)
StopRuntime_keeps_mode ==
    /\ lock = "free"
    /\ OrphansAfterCancel <= MaxOrphans
    /\ runtime' = [runtime EXCEPT
                     !.status = "stopped",
                     !.test_enabled = cfg.test_enabled,
                     !.danmaku_status = "idle",
                     !.danmaku_error = "",
                     !.queue_paused = FALSE,
                     !.queue_pause_reason = "",
                     !.queue_pause_until_ts = <<>>,
                     !.queue_auto_pause_time = cfg.auto_pause_time]
    /\ danmaku_task' = "none"
    /\ client' = <<>>
    /\ orphans' = OrphansAfterCancel
    /\ ret' = Return("stop_runtime", <<>>, TRUE, "")
    /\ UNCHANGED <<qvars, cfg, lock, starter, ivars, kvars>>
    /\ emitted' = broadcast_state
    /\ WsBroadcast

StopRuntime ==
    /\ lock = "free"
    /\ OrphansAfterCancel <= MaxOrphans
    /\ runtime' = [runtime EXCEPT
                     !.status = "stopped",
                     !.test_enabled = cfg.test_enabled,
                     !.danmaku_status = "idle",
                     !.danmaku_error = "",
                     !.active_mode = "",
                     !.queue_paused = FALSE,
                     !.queue_pause_reason = "",
                     !.queue_pause_until_ts = <<>>,
                     !.queue_auto_pause_time = cfg.auto_pause_time]
    /\ danmaku_task' = "none"
    /\ client' = <<>>
    /\ orphans' = OrphansAfterCancel
    /\ ret' = Return("stop_runtime", <<>>, TRUE, "")
    /\ UNCHANGED <<qvars, cfg, lock, starter, ivars, kvars>>
    /\ emitted' = broadcast_state
    /\ WsBroadcast

SetTestEnabled(enabled) ==
    /\ lock = "free"
    /\ runtime' = [runtime EXCEPT !.test_enabled = enabled]
    /\ ret' = Return("set_test_enabled", <<>>, TRUE, "")
    /\ UNCHANGED <<qvars, cfg, lock, starter, danmaku_task, ivars, dvars,
                   kvars>>
    /\ emitted' = broadcast_state
    /\ WsBroadcast

\* set_queue_paused as it would be if an un-pause left the trigger alone
\* (without line 304)
SetQueuePaused_no_rearm(paused) ==
    /\ lock = "free"
    /\ runtime' =
         IF paused
         THEN [runtime EXCEPT !.queue_paused = TRUE,
                              !.queue_pause_reason = "manual",
                              !.queue_pause_until_ts = <<>>]
         ELSE [runtime EXCEPT !.queue_paused = FALSE,
                              !.queue_pause_reason = ""]
    /\ ret' = Return("set_queue_paused", <<>>, TRUE, "")
    /\ UNCHANGED <<qvars, cfg, lock, starter, danmaku_task, ivars, dvars,
                   kvars>>
    /\ emitted' = broadcast_state
    /\ WsBroadcast

SetQueuePaused(paused) ==
    /\ lock = "free"
    /\ runtime' =
         IF paused
         THEN [runtime EXCEPT !.queue_paused = TRUE,
                              !.queue_pause_reason = "manual",
                              !.queue_pause_until_ts = <<>>]
         ELSE [runtime EXCEPT
                 !.queue_paused = FALSE,
                 !.queue_pause_reason = "",
                 !.queue_pause_until_ts =
                     _next_timestamp_for_time_str(
                         runtime.queue_auto_pause_time, now)]
    /\ ret' = Return("set_queue_paused", <<>>, TRUE, "")
    /\ UNCHANGED <<qvars, cfg, lock, starter, danmaku_task, ivars, dvars,
                   kvars>>
    /\ emitted' = broadcast_state
    /\ WsBroadcast

\* set_auto_pause_time as it would be if the string were stored before it
\* is validated
SetAutoPauseTime_store_first(time_str) ==
    LET t == Strip(time_str) IN
    /\ lock = "free"
    /\ runtime' =
         [runtime EXCEPT
            !.queue_auto_pause_time = t,
            !.queue_pause_until_ts =
                IF runtime.queue_paused THEN <<>>
                ELSE _next_timestamp_for_time_str(t, now)]
    /\ ret' = IF t # <<>> /\ ~_is_valid_hhmm(t)
              THEN Return("set_auto_pause_time", <<>>, FALSE, "must be HH:MM")
              ELSE Return("set_auto_pause_time", <<>>, TRUE, "")
    /\ UNCHANGED <<qvars, cfg, lock, starter, danmaku_task, ivars, dvars,
                   kvars>>
    /\ emitted' = IF ret'.ok THEN broadcast_state ELSE <<>>
    /\ WsBroadcast

\* set_auto_pause_time: a malformed string is turned away before the lock
SetAutoPauseTime(time_str) ==
    LET t == Strip(time_str) IN
    IF t # <<>> /\ ~_is_valid_hhmm(t)
    THEN /\ ret' = Return("set_auto_pause_time", <<>>, FALSE, "must be HH:MM")
         /\ UNCHANGED <<qvars, cvars, ivars, dvars, kvars>>
         /\ emitted' = <<>>
         /\ WsBroadcast
    ELSE /\ lock = "free"
         /\ runtime' =
              [runtime EXCEPT
                 !.queue_auto_pause_time = t,
                 !.queue_pause_until_ts =
                     IF runtime.queue_paused THEN <<>>
                     ELSE _next_timestamp_for_time_str(t, now)]
         /\ ret' = Return("set_auto_pause_time", <<>>, TRUE, "")
         /\ UNCHANGED <<qvars, cfg, lock, starter, danmaku_task, ivars, dvars,
                        kvars>>
         /\ emitted' = broadcast_state
         /\ WsBroadcast

\* _maybe_auto_pause_locked at clock t: the runtime it leaves and whether it
\* reports a change
_maybe_auto_pause_locked(rt, t) ==
    IF rt.status # "running" \/ rt.queue_paused
       \/ rt.queue_auto_pause_time = <<>>
    THEN [runtime |-> rt, changed |-> FALSE]
    ELSE LET until == IF rt.queue_pause_until_ts = <<>>
                      THEN _next_timestamp_for_time_str(
                               rt.queue_auto_pause_time, t)
                      ELSE rt.queue_pause_until_ts
         IN  IF until = <<>>
             THEN [runtime |-> rt, changed |-> FALSE]
             ELSE IF t >= until[1]
             THEN [runtime |-> [rt EXCEPT !.queue_paused = TRUE,
                                          !.queue_pause_reason = "auto",
                                          !.queue_pause_until_ts = <<>>],
                   changed |-> TRUE]
             ELSE [runtime |-> [rt EXCEPT !.queue_pause_until_ts = until],
                   changed |-> FALSE]

\* _pause_checker_loop: one wake-up from its sleep
PauseCheck ==
    /\ pause_checker = "sleeping"
    /\ lock = "free"
    /\ LET r == _maybe_auto_pause_locked(runtime, now) IN
       /\ runtime' = r.runtime
       /\ ret' = Return("_pause_checker_loop", <<>>, r.changed, "")
       /\ UNCHANGED <<qvars, cfg, lock, starter, danmaku_task, ivars, dvars,
                      kvars>>
       /\ emitted' = IF r.changed THEN broadcast_state ELSE <<>>
       /\ WsBroadcast

\* _pause_checker_loop as it would be without lines 360-362: the exception
\* of a tick ends the task
PauseCheckRaises_dies ==
    /\ pause_checker = "sleeping"
    /\ pause_checker' = "raised"
    /\ ret' = Return("_pause_checker_loop:except Exception", <<>>, FALSE, "")
    /\ UNCHANGED <<qvars, cvars, ivars, dvars, callers, now>>
    /\ emitted' = <<>>
    /\ WsBroadcast

\* _pause_checker_loop, lines 360-362: a tick raises before it changes
\* anything; the exception is swallowed and the loop sleeps again
PauseCheckRaises ==
    /\ pause_checker = "sleeping"
    /\ pause_checker' = "sleeping"
    /\ ret' = Return("_pause_checker_loop:except Exception", <<>>, FALSE, "")
    /\ UNCHANGED <<qvars, cvars, ivars, dvars, callers, now>>
    /\ emitted' = <<>>
    /\ WsBroadcast

\* AppContext.shutdown with no page connected (its broadcast returns at
\* once): stop_runtime, then the consumer and the pause checker are
\* cancelled; the checker leaves its loop at lines 358-359
Shutdown ==
    /\ lock = "free"
    /\ conns = {}
    /\ pause_checker = "sleeping"
    /\ OrphansAfterCancel <= MaxOrphans
    /\ runtime' = [runtime EXCEPT
                     !.status = "stopped",
                     !.test_enabled = cfg.test_enabled,
                     !.danmaku_status = "idle",
                     !.danmaku_error = "",
                     !.active_mode = "",
                     !.queue_paused = FALSE,
                     !.queue_pause_reason = "",
                     !.queue_pause_until_ts = <<>>,
                     !.queue_auto_pause_time = cfg.auto_pause_time]
    /\ danmaku_task' = "none"
    /\ client' = <<>>
    /\ orphans' = OrphansAfterCancel
    /\ consumer' = [pc |-> "cancelled", id |-> 0, ev |-> NoEvent]
    /\ pause_checker' = "returned"
    /\ ret' = Return("shutdown", <<>>, TRUE, "")
    /\ UNCHANGED <<qvars, cfg, lock, starter, stream, event_q, putters,
                   woken, pushed, consumed, callers, now>>
    /\ emitted' = broadcast_state
    /\ WsBroadcast

\* time passes
Tick ==
    /\ now < MaxNow
    /\ now' = now + 1
    /\ ret' = Return("tick", <<>>, TRUE, "")
    /\ UNCHANGED <<qvars, cvars, ivars, dvars, callers, pause_checker>>
    /\ emitted' = <<>>
    /\ WsBroadcast

\* update_config, lines 167-168: the runtime follows the new configuration
Synced(rt, c) ==
    [rt EXCEPT !.queue_pause_check_interval =
                   IntOr60(c.pause_check_interval_seconds),
               !.queue_auto_pause_time = c.auto_pause_time]

\* update_config, lines 173-176 and 184-186: the error is recorded
Refused(rt, err) ==
    [rt EXCEPT !.danmaku_status = "error", !.danmaku_error = err,
               !.active_mode = ""]

\* update_config, lines 177-179, with _start_danmaku_locked(restart=True):
\* an alive task is cancelled and a new one is made for configuration c
Restart(c, mode, sess) ==
    /\ OrphansAfterCancel <= MaxOrphans
    /\ orphans' = OrphansAfterCancel
    /\ danmaku_task' = "running"
    /\ client' = Client(c, mode, sess)

\* update_config with an updater that returns new, or raises
UpdateConfig(new, raises, fetch) ==
    /\ lock = "free"
    /\ IF raises
       THEN /\ ret' = Return("update_config", <<>>, FALSE, "updater raised")
            /\ UNCHANGED <<qvars, cvars, ivars, dvars, kvars>>
            /\ emitted' = <<>>
            /\ WsBroadcast
       ELSE /\ cfg' = new
            /\ UNCHANGED <<qvars, ivars, kvars>>
            /\ IF runtime.status = "running"
               THEN LET p == prepare(new, fetch) IN
                    IF p.err # ""
                    THEN /\ runtime' = Refused(Synced(runtime, new), p.err)
                         /\ ret' = Return("update_config", <<>>, TRUE, "")
                         /\ UNCHANGED <<lock, starter, danmaku_task, dvars>>
                         /\ emitted' = broadcast_state
                         /\ WsBroadcast
                    ELSE IF p.verify
                    THEN /\ runtime' = Synced(runtime, new)
                         /\ lock' = "update_config"
                         /\ starter' = [pc |-> "update_verify",
                                        mode |-> p.mode, sess |-> p.sess]
                         /\ ret' = Return("update_config:verify", <<>>,
                                          FALSE, "")
                         /\ UNCHANGED <<danmaku_task, dvars>>
                         /\ emitted' = <<>>
                         /\ WsBroadcast
                    ELSE /\ runtime' = [Synced(runtime, new) EXCEPT
                                          !.active_mode = p.mode]
                         /\ Restart(new, p.mode, p.sess)
                         /\ ret' = Return("update_config", <<>>, TRUE, "")
                         /\ UNCHANGED <<lock, starter>>
                         /\ emitted' = broadcast_state
                         /\ WsBroadcast
               ELSE LET sel == select_danmaku_mode(new.bilibili) IN
                    /\ runtime' =
                         IF sel.err # ""
                         THEN [Synced(runtime, new) EXCEPT
                                 !.danmaku_status = "error",
                                 !.danmaku_error = sel.err]
                         ELSE [Synced(runtime, new) EXCEPT
                                 !.danmaku_status = "idle",
                                 !.danmaku_error = "",
                                 !.active_mode = ""]
                    /\ ret' = Return("update_config", <<>>, TRUE, "")
                    /\ UNCHANGED <<lock, starter, danmaku_task, dvars>>
                    /\ emitted' = broadcast_state
                    /\ WsBroadcast

\* update_config as it would be if it returned from the verification
\* without releasing the lock
UpdateVerifyDone_keeps_lock(valid) ==
    /\ starter.pc = "update_verify"
    /\ lock' = lock
    /\ starter' = NoStarter
    /\ ret' = Return("update_config", <<>>, TRUE, "")
    /\ UNCHANGED <<qvars, cfg, ivars, kvars>>
    /\ IF valid
       THEN /\ runtime' = [runtime EXCEPT !.active_mode = starter.mode]
            /\ Restart(cfg, starter.mode, starter.sess)
       ELSE /\ runtime' = Refused(runtime, "SESSDATA invalid")
            /\ UNCHANGED <<danmaku_task, dvars>>
    /\ emitted' = broadcast_state
    /\ WsBroadcast

\* verify_sessdata answers; update_config goes on from line 389
UpdateVerifyDone(valid) ==
    /\ starter.pc = "update_verify"
    /\ lock' = "free"
    /\ starter' = NoStarter
    /\ ret' = Return("update_config", <<>>, TRUE, "")
    /\ UNCHANGED <<qvars, cfg, ivars, kvars>>
    /\ IF valid
       THEN /\ runtime' = [runtime EXCEPT !.active_mode = starter.mode]
            /\ Restart(cfg, starter.mode, starter.sess)
       ELSE /\ runtime' = Refused(runtime, "SESSDATA invalid")
            /\ UNCHANGED <<danmaku_task, dvars>>
    /\ emitted' = broadcast_state
    /\ WsBroadcast

(***************************************************************************)
(* The chat-client task: runner() of _start_danmaku_locked around          *)
(* run_client_until_cancelled (danmaku.py:91-111).  It waits in join();    *)
(* when join() raises, the `finally` closes the client and the session     *)
(* (two awaits) before runner records the failure; when the task is        *)
(* cancelled in join(), the `except CancelledError` branch awaits          *)
(* stop_and_close() before it re-raises, and that call returns or raises.  *)
(***************************************************************************)
\* runner's record as it would be if a failure also stopped the runtime
Crashed_stops(rt) ==
    [rt EXCEPT !.status = "stopped",
               !.danmaku_status = "error",
               !.danmaku_error = "danmaku crashed"]

\* runner, lines 284-290: the failure is recorded under the lock
Crashed(rt) ==
    [rt EXCEPT !.danmaku_status = "error",
               !.danmaku_error = "danmaku crashed"]

\* join() raises something other than a cancellation
RunnerCrash ==
    /\ danmaku_task = "running"
    /\ danmaku_task' = "crashing"
    /\ ret' = Return("runner:join raised", <<>>, FALSE, "")
    /\ UNCHANGED <<qvars, cfg, runtime, lock, starter, ivars, dvars, kvars>>
    /\ emitted' = <<>>
    /\ WsBroadcast

\* the clean-up is over and runner's `except Exception` takes the lock
RunnerCrashRecord ==
    /\ danmaku_task = "crashing"
    /\ lock = "free"
    /\ danmaku_task' = "done"
    /\ runtime' = Crashed(runtime)
    /\ ret' = Return("runner:except Exception", <<>>, TRUE, "")
    /\ UNCHANGED <<qvars, cfg, lock, starter, ivars, dvars, kvars>>
    /\ emitted' = broadcast_state
    /\ WsBroadcast

\* a cancelled task's stop_and_close() returns: CancelledError is re-raised
OrphanClosed ==
    /\ orphans > 0
    /\ orphans' = orphans - 1
    /\ ret' = Return("runner:cancelled", <<>>, TRUE, "")
    /\ UNCHANGED <<qvars, cvars, ivars, client, kvars>>
    /\ emitted' = <<>>
    /\ WsBroadcast

\* a cancelled task's stop_and_close() raises: the exception takes the
\* place of the cancellation and runner's `except Exception` records it
OrphanCloseRaises ==
    /\ orphans > 0
    /\ lock = "free"
    /\ orphans' = orphans - 1
    /\ runtime' = Crashed(runtime)
    /\ ret' = Return("runner:cancelled, except Exception", <<>>, TRUE, "")
    /\ UNCHANGED <<qvars, cfg, lock, starter, danmaku_task, ivars, client,
                   kvars>>
    /\ emitted' = broadcast_state
    /\ WsBroadcast

(***************************************************************************)
(* app/server.py: the routes that change the queue.  remove, pin_top and   *)
(* toggle_mark call QueueCore directly, without the lock.                  *)
(***************************************************************************)
\* the admin routes as they would be without the test of the status
QueueRoute_unchecked(op, user_key, r) ==
    /\ current' = r.current
    /\ waiting' = r.waiting
    /\ ret' = Return(op, <<>>, r.ok, IF r.ok THEN "" ELSE "404")
    /\ UNCHANGED <<cvars, ivars, dvars, kvars>>
    /\ emitted' = IF r.ok THEN broadcast_state ELSE <<>>
    /\ WsBroadcast

\* the shared shape of api_queue_remove, api_queue_pin_top and
\* api_queue_toggle_mark, r being what the QueueCore call returns
QueueRoute(op, user_key, r) ==
    IF runtime.status # "running"
    THEN /\ ret' = Return(op, <<>>, FALSE, "400")
         /\ UNCHANGED <<qvars, cvars, ivars, dvars, kvars>>
         /\ emitted' = <<>>
         /\ WsBroadcast
    ELSE /\ current' = r.current
         /\ waiting' = r.waiting
         /\ ret' = Return(op, <<>>, r.ok, IF r.ok THEN "" ELSE "404")
         /\ UNCHANGED <<cvars, ivars, dvars, kvars>>
         /\ emitted' = IF r.ok THEN broadcast_state ELSE <<>>
         /\ WsBroadcast

ApiQueueRemove(user_key) ==
    QueueRoute("api_queue_remove", user_key,
               remove(current, waiting, user_key))

ApiQueuePinTop(user_key) ==
    QueueRoute("api_queue_pin_top", user_key,
               pin_top(current, waiting, user_key))

ApiQueueToggleMark(user_key, marked) ==
    QueueRoute("api_queue_toggle_mark", user_key,
               set_marked(current, waiting, user_key, marked))

\* api_test_danmaku: the event carries the name as its key
ApiTestDanmaku(uname, msg) ==
    IF runtime.status # "running" \/ ~runtime.test_enabled
    THEN /\ ret' = Return("api_test_danmaku:400", <<>>, FALSE, "400")
         /\ UNCHANGED <<qvars, cvars, ivars, dvars, kvars>>
         /\ emitted' = <<>>
         /\ WsBroadcast
    ELSE /\ lock = "free"
         /\ UNCHANGED <<cvars, ivars, dvars, kvars>>
         /\ LET r == process_event(DanmakuEvent(uname, msg, uname)) IN
            /\ current' = r.current
            /\ waiting' = r.waiting
            /\ ret' = Return("api_test_danmaku", <<>>, r.ok, r.reason)
            /\ emitted' = IF r.ok THEN broadcast_state ELSE <<>>
            /\ WsBroadcast

(***************************************************************************)
(* The ingestion channel.  _Handler._on_danmaku (danmaku.py:24-35) starts  *)
(* one task per chat line, which runs put_event, that is                   *)
(* asyncio.Queue.put: while the queue is full the call appends a future to *)
(* _putters and suspends; get_nowait resolves the first such future; the   *)
(* resumed call tests full() again before it puts.  Events are numbered in *)
(* the order in which their put_event calls start.                         *)
(***************************************************************************)
\* asyncio.Queue.full()
Full == Len(event_q) >= EventQMaxsize

\* put_event as it would be with put_nowait: a full queue drops the event
PutStart_drop(ev) ==
    /\ stream > 0
    /\ danmaku_task = "running"
    /\ stream' = stream - 1
    /\ pushed' = pushed + 1
    /\ IF Full
       THEN UNCHANGED event_q
       ELSE event_q' = Append(event_q, [id |-> pushed + 1, ev |-> ev])
    /\ ret' = Return("put_event", <<>>, ~Full, "")
    /\ UNCHANGED <<qvars, cvars, putters, woken, consumer, consumed, dvars, kvars>>
    /\ emitted' = <<>>
    /\ WsBroadcast

\* put_event, from its start to the put or to the suspension on a full queue
PutStart(ev) ==
    /\ stream > 0
    /\ danmaku_task = "running"
    /\ stream' = stream - 1
    /\ pushed' = pushed + 1
    /\ IF Full
       THEN /\ putters' = Append(putters, [id |-> pushed + 1, ev |-> ev])
            /\ UNCHANGED event_q
       ELSE /\ event_q' = Append(event_q, [id |-> pushed + 1, ev |-> ev])
            /\ UNCHANGED putters
    /\ ret' = Return("put_event", <<>>, ~Full, "")
    /\ UNCHANGED <<qvars, cvars, woken, consumer, consumed, dvars, kvars>>
    /\ emitted' = <<>>
    /\ WsBroadcast

\* a put_event call whose future was resolved runs again: `while self.full()`
PutResume ==
    /\ woken # <<>>
    /\ woken' = Tail(woken)
    /\ IF Full
       THEN /\ putters' = Append(putters, Head(woken))
            /\ UNCHANGED event_q
       ELSE /\ event_q' = Append(event_q, Head(woken))
            /\ UNCHANGED putters
    /\ ret' = Return("put_event:resume", <<>>, ~Full, "")
    /\ UNCHANGED <<qvars, cvars, stream, pushed, consumer, consumed, dvars, kvars>>
    /\ emitted' = <<>>
    /\ WsBroadcast

\* _consumer_loop, line 264: get() takes the head and wakes the first putter
ConsumerGet ==
    /\ consumer.pc = "get"
    /\ event_q # <<>>
    /\ event_q' = Tail(event_q)
    /\ consumer' = [pc |-> "process", id |-> Head(event_q).id,
                    ev |-> Head(event_q).ev]
    /\ IF putters # <<>>
       THEN /\ putters' = Tail(putters)
            /\ woken' = Append(woken, Head(putters))
       ELSE UNCHANGED <<putters, woken>>
    /\ ret' = Return("consumer:get", <<>>, TRUE, "")
    /\ UNCHANGED <<qvars, cvars, stream, pushed, consumed, dvars, kvars>>
    /\ emitted' = <<>>
    /\ WsBroadcast

\* _consumer_loop, lines 265-267: process_event under the lock, then the
\* broadcast if the queue changed
ConsumerProcess ==
    /\ consumer.pc = "process"
    /\ lock = "free"
    /\ consumed' = Append(consumed, consumer.id)
    /\ UNCHANGED <<cvars, stream, event_q, putters, woken, pushed, dvars, kvars>>
    /\ LET r == process_event(consumer.ev) IN
       /\ current' = r.current
       /\ waiting' = r.waiting
       /\ ret' = Return("consumer:process_event", <<>>, r.ok, r.reason)
       /\ consumer' = IF r.ok
                      THEN [consumer EXCEPT !.pc = "broadcast"]
                      ELSE [pc |-> "get", id |-> 0, ev |-> NoEvent]
       /\ emitted' = IF r.ok THEN broadcast_state ELSE <<>>
       /\ WsBroadcast

\* the broadcast the consumer awaits returns
ConsumerBroadcastDone ==
    /\ consumer.pc = "broadcast"
    /\ \A i \in 1..Len(inflight) : inflight[i].by # "consumer:process_event"
    /\ consumer' = [pc |-> "get", id |-> 0, ev |-> NoEvent]
    /\ ret' = Return("consumer:broadcast_done", <<>>, TRUE, "")
    /\ UNCHANGED <<qvars, cvars, stream, event_q, putters, woken, pushed,
                   consumed, dvars, kvars>>
    /\ emitted' = <<>>
    /\ WsBroadcast

(***************************************************************************)
(* app/ws.py and the /ws endpoint (server.py:405-421): subscribers come    *)
(* and go, and the sends of the broadcasts in delivery end one by one.     *)
(* The send tasks of one broadcast are created before those of the next,   *)
(* so a subscriber is sent the payloads in the order of the broadcasts.    *)
(***************************************************************************)
Subscribers == { "w1", "w2" }

\* inflight without its i-th broadcast
DropAt(i) ==
    SubSeq(inflight, 1, i - 1) \o SubSeq(inflight, i + 1, Len(inflight))

\* _safe_send(ws) of the i-th broadcast is the next send to ws to run
NextSend(i, ws) ==
    /\ i \in 1..Len(inflight)
    /\ ws \in inflight[i].pending
    /\ \A j \in 1..(i - 1) : ws \notin inflight[j].pending

\* WsHub.add, called by ws_endpoint when a page connects
WsAdd(ws) ==
    /\ ws \notin conns
    /\ conns' = conns \cup {ws}
    /\ ret' = Return("ws.add", <<>>, TRUE, "")
    /\ UNCHANGED <<qvars, cvars, ivars, dvars, kvars, inflight>>
    /\ emitted' = <<>>

\* WsHub.remove, called by ws_endpoint when the page has gone
WsRemove(ws) ==
    /\ ws \in conns
    /\ conns' = conns \ {ws}
    /\ ret' = Return("ws.remove", <<>>, TRUE, "")
    /\ UNCHANGED <<qvars, cvars, ivars, dvars, kvars, inflight>>
    /\ emitted' = <<>>

\* _safe_send, line 33: send_text returns
SafeSendOk(i, ws) ==
    /\ NextSend(i, ws)
    /\ inflight' = [inflight EXCEPT
                      ![i].pending = @ \ {ws}, ![i].got = @ \cup {ws}]
    /\ ret' = Return("_safe_send", <<>>, TRUE, "")
    /\ UNCHANGED <<qvars, cvars, ivars, dvars, kvars, conns>>
    /\ emitted' = <<>>

\* _safe_send as it would be if a failed send put an end to the broadcast
SafeSendRaises_aborts(i, ws) ==
    /\ NextSend(i, ws)
    /\ conns' = conns \ {ws}
    /\ inflight' = [inflight EXCEPT
                      ![i].pending = {}, ![i].failed = @ \cup {ws}]
    /\ ret' = Return("_safe_send", <<>>, FALSE, "send_text raised")
    /\ UNCHANGED <<qvars, cvars, ivars, dvars, kvars>>
    /\ emitted' = <<>>

\* _safe_send, lines 34-35: send_text raises and the subscriber is removed
SafeSendRaises(i, ws) ==
    /\ NextSend(i, ws)
    /\ conns' = conns \ {ws}
    /\ inflight' = [inflight EXCEPT
                      ![i].pending = @ \ {ws}, ![i].failed = @ \cup {ws}]
    /\ ret' = Return("_safe_send", <<>>, FALSE, "send_text raised")
    /\ UNCHANGED <<qvars, cvars, ivars, dvars, kvars>>
    /\ emitted' = <<>>

\* broadcast, line 29: every send is over and gather() returns
BroadcastReturns(i) ==
    /\ i \in 1..Len(inflight)
    /\ inflight[i].pending = {}
    /\ inflight' = DropAt(i)
    /\ ret' = Return("ws.broadcast", <<>>, TRUE, inflight[i].by)
    /\ UNCHANGED <<qvars, cvars, ivars, dvars, kvars, conns>>
    /\ emitted' = <<>>

(***************************************************************************)
(* Spec: the controller.  The configuration is loaded once (context.py:23) *)
(* and is one of Configs; the room delivers one chat line.                 *)
(***************************************************************************)
Msgs == { <<"k">>, <<" ", "k">>, <<"x", "k">>, <<"x">> }

\* what _Handler builds: the key is the uid, or the name when there is none
ChatEvents ==
    { DanmakuEvent(<<"a">>, <<"k">>, <<"a">>),
      DanmakuEvent(<<"b">>, <<" ", "k">>, <<"b">>),
      DanmakuEvent(<<"b">>, <<"x", "k">>, <<"b">>),
      DanmakuEvent(<<" ">>, <<"k">>, <<" ">>) }

\* names typed into the test page (TestDanmakuIn: at least one character)
TestUnames == { <<"c">>, <<" ", "a">>, <<" ">> }

\* open-platform credentials, web credentials, and none
WithOpenLive == BiliConfig("auto", OpenLiveSet, WebDanmakuConfig(<<>>, 0, FALSE))
WithWeb == BiliConfig("auto", OpenLiveUnset, WebDanmakuConfig(<<"s">>, 1, FALSE))
WithNothing == BiliConfig("auto", OpenLiveUnset, WebDanmakuConfig(<<>>, 0, FALSE))

\* config.yaml as loaded: an exact keyword, a padded keyword matched by
\* containment, a blank keyword, and a configuration with no credentials
Configs ==
    { AppConfig(<<"k">>, "exact", MaxQueue, FALSE, WithOpenLive),
      AppConfig(<<" ", "k">>, "contains", 1, FALSE, WithWeb),
      AppConfig(<<" ">>, "exact", 1, FALSE, WithOpenLive),
      AppConfig(<<"k">>, "exact", 1, FALSE, WithNothing) }

Init ==
    /\ InitRest
    /\ cfg \in Configs
    /\ runtime = RuntimeState(cfg)
    /\ danmaku_task = "none"
    /\ client = <<>>
    /\ stream = 1

Next ==
    \/ \E f \in FetchOutcomes : StartRuntime(f)
    \/ \E v \in BOOLEAN : VerifySessdataDone(v)
    \/ StopRuntime
    \/ \E b \in BOOLEAN : SetTestEnabled(b)
    \/ \E b \in BOOLEAN : SetQueuePaused(b)
    \/ \E k \in Users : ApiQueueRemove(k)
    \/ \E k \in Users : ApiQueuePinTop(k)
    \/ \E k \in Users, m \in BOOLEAN : ApiQueueToggleMark(k, m)
    \/ \E u \in TestUnames, m \in Msgs : ApiTestDanmaku(u, m)
    \/ \E ev \in ChatEvents : PutStart(ev)
    \/ ConsumerGet
    \/ ConsumerProcess
    \/ ConsumerBroadcastDone
    \/ OrphanClosed

Spec == Init /\ [][Next]_vars

(***************************************************************************)
(* SpecConc: every user of Users calls process_event once, concurrently,   *)
(* against a running, un-paused controller with an empty queue and         *)
(* max_queue = N.  A call first reaches `async with self._lock` and runs   *)
(* its body when it gets the lock.                                         *)
(***************************************************************************)
\* RuntimeState as a successful start_runtime leaves it
Running(c, mode) ==
    [RuntimeState(c) EXCEPT !.status = "running",
                                         !.danmaku_status = "running",
                                         !.active_mode = mode]

InitConc ==
    /\ InitRest
    /\ \E n \in 0..MaxQueue :
          cfg = AppConfig(<<"k">>, "exact", n, FALSE, WithOpenLive)
    /\ runtime = Running(cfg, "open_live")
    /\ danmaku_task = "running"
    /\ client = Client(cfg, "open_live", <<>>)
    /\ stream = 0

\* the call is made: the coroutine is at `async with self._lock`
CallerSubmit(u) ==
    /\ callers[u] = "idle"
    /\ callers' = [callers EXCEPT ![u] = "waiting"]
    /\ ret' = Return("process_event:call", u, FALSE, "")
    /\ emitted' = <<>>
    /\ WsBroadcast
    /\ UNCHANGED <<qvars, cvars, ivars, dvars, now, pause_checker>>

\* the call gets the lock and runs process_event's body
CallerRun(u) ==
    /\ callers[u] = "waiting"
    /\ lock = "free"
    /\ LET r == process_event(DanmakuEvent(u, <<"k">>, u)) IN
       /\ current' = r.current
       /\ waiting' = r.waiting
       /\ callers' = [callers EXCEPT ![u] = r.reason]
       /\ ret' = Return("process_event", u, r.ok, r.reason)
    /\ emitted' = <<>>
    /\ WsBroadcast
    /\ UNCHANGED <<cvars, ivars, dvars, now, pause_checker>>

NextConc ==
    \/ \E u \in Users : CallerSubmit(u)
    \/ \E u \in Users : CallerRun(u)

SpecConc == InitConc /\ [][NextConc]_vars

(***************************************************************************)
(* SpecIngest: the ingestion pipeline on a running controller.  The room   *)
(* delivers MaxPush chat lines; the consumer is the only task that takes   *)
(* events out.  FairIngest adds what the event loop guarantees: a task     *)
(* that can run is run, and the broadcast the consumer awaits returns.     *)
(***************************************************************************)
InitIngest ==
    /\ InitRest
    /\ cfg = AppConfig(<<"k">>, "exact", MaxQueue, FALSE, WithOpenLive)
    /\ runtime = Running(cfg, "open_live")
    /\ danmaku_task = "running"
    /\ client = Client(cfg, "open_live", <<>>)
    /\ stream = MaxPush

NextIngest ==
    \/ \E ev \in ChatEvents : PutStart(ev)
    \/ PutResume
    \/ ConsumerGet
    \/ ConsumerProcess
    \/ ConsumerBroadcastDone

SpecIngest == InitIngest /\ [][NextIngest]_vars

FairIngest ==
    /\ SpecIngest
    /\ WF_vars(PutResume)
    /\ WF_vars(ConsumerGet)
    /\ WF_vars(ConsumerProcess)
    /\ WF_vars(ConsumerBroadcastDone)

(***************************************************************************)
(* SpecLife: the lifecycle.  The controller is started, stopped, paused    *)
(* and reconfigured while the clock advances, the pause checker wakes up,  *)
(* and the chat-client task fails or is cancelled; the test page admits    *)
(* one user and the admin removes them.                                    *)
(***************************************************************************)
\* "00:01", "24:00" and "0:01" as typed or configured
At0001 == <<"0", "0", ":", "0", "1">>
At2400 == <<"2", "4", ":", "0", "0">>
At001  == <<"0", ":", "0", "1">>

TimeStrs == { <<>>, At0001, <<" ">> \o At0001, At2400, At001 }

\* web mode with the cookie taken from the browser at each start
WithFetchedWeb ==
    BiliConfig("auto", OpenLiveUnset, WebDanmakuConfig(<<>>, 1, TRUE))

\* config.yaml, and what an updater can turn it into: open-platform
\* credentials with an auto-pause time, web credentials, a cookie to fetch,
\* no credentials with a time that is no time of day
LifeConfigs ==
    { WithAutoPause(AppConfig(<<"k">>, "exact", 1, TRUE, WithOpenLive), At0001),
      AppConfig(<<"k">>, "exact", 1, TRUE, WithWeb),
      AppConfig(<<"k">>, "exact", 1, TRUE, WithFetchedWeb),
      WithAutoPause(AppConfig(<<"k">>, "exact", 1, TRUE, WithNothing), At2400) }

InitLife ==
    /\ InitRest
    /\ cfg \in LifeConfigs
    /\ runtime = RuntimeState(cfg)
    /\ danmaku_task = "none"
    /\ client = <<>>
    /\ stream = 0

NextLife ==
    \/ \E f \in FetchOutcomes : StartRuntime(f)
    \/ \E v \in BOOLEAN : VerifySessdataDone(v)
    \/ StopRuntime
    \/ \E b \in BOOLEAN : SetQueuePaused(b)
    \/ \E t \in TimeStrs : SetAutoPauseTime(t)
    \/ PauseCheck
    \/ Tick
    \/ \E c \in LifeConfigs, r \in BOOLEAN, f \in FetchOutcomes :
          UpdateConfig(c, r, f)
    \/ \E v \in BOOLEAN : UpdateVerifyDone(v)
    \/ RunnerCrash
    \/ RunnerCrashRecord
    \/ OrphanClosed
    \/ OrphanCloseRaises
    \/ ApiTestDanmaku(<<"c">>, <<"k">>)
    \/ ApiQueueRemove(<<"c">>)

SpecLife == InitLife /\ [][NextLife]_vars

(***************************************************************************)
(* SpecTime: the auto-pause time.  _next_timestamp_for_time_str is applied *)
(* to the configured time by start_runtime and to the typed time by        *)
(* set_auto_pause_time, at clock readings around 09:00, around midnight    *)
(* and on the day after.                                                   *)
(***************************************************************************)
At0900 == <<"0", "9", ":", "0", "0">>
At0000 == <<"0", "0", ":", "0", "0">>
At2359 == <<"2", "3", ":", "5", "9">>
At0960 == <<"0", "9", ":", "6", "0">>
At900  == <<"9", ":", "0", "0">>
AtWord == <<"n", "o", ":", "o", "n">>

ClockStrs ==
    { <<>>, At0900, At0000, At2359, <<" ">> \o At0900, At2400, At0960, At900,
      AtWord }

\* clock readings, in minutes: 00:00, 08:59..09:01, 23:59 and the same on
\* the next day
Clock ==
    {0, 539, 540, 541, 1439} \cup
    {24 * 60 + m : m \in {0, 539, 540, 541, 1439}}

TimeConfigs ==
    { WithAutoPause(AppConfig(<<"k">>, "exact", 1, TRUE, WithOpenLive), t) :
        t \in ClockStrs }

InitTime ==
    /\ InitRest
    /\ cfg \in TimeConfigs
    /\ runtime = RuntimeState(cfg)
    /\ danmaku_task = "none"
    /\ client = <<>>
    /\ stream = 0

\* time passes: datetime.now() next reads t
TimePasses(t) ==
    /\ t > now
    /\ now' = t
    /\ ret' = Return("time passes", <<>>, TRUE, "")
    /\ UNCHANGED <<qvars, cvars, ivars, dvars, callers, pause_checker>>
    /\ emitted' = <<>>
    /\ WsBroadcast

NextTime ==
    \/ \E f \in FetchOutcomes : StartRuntime(f)
    \/ StopRuntime
    \/ \E t \in ClockStrs : SetAutoPauseTime(t)
    \/ \E t \in Clock : TimePasses(t)
    \/ OrphanClosed

SpecTime == InitTime /\ [][NextTime]_vars

(***************************************************************************)
(* SpecSched: the auto-pause scheduler.  The controller is started,        *)
(* stopped, paused, given another time and reconfigured while the clock    *)
(* advances and the pause checker wakes up, raises, or is cancelled by the *)
(* shutdown.  FairSched adds what the event loop, asyncio.Lock and the     *)
(* ten-second timeout of verify_sessdata (bili_utils.py:57) guarantee: the *)
(* verification answers, and the checker, which queues for the lock in     *)
(* arrival order, gets it and completes a tick again and again.            *)
(***************************************************************************)
SchedConfigs ==
    { WithAutoPause(AppConfig(<<"k">>, "exact", 1, TRUE, WithOpenLive), At0001),
      AppConfig(<<"k">>, "exact", 1, TRUE, WithWeb) }

SchedTimes == { <<>>, At0001, At2400 }

InitSched ==
    /\ InitRest
    /\ cfg \in SchedConfigs
    /\ runtime = RuntimeState(cfg)
    /\ danmaku_task = "none"
    /\ client = <<>>
    /\ stream = 0

NextSched ==
    \/ \E f \in FetchOutcomes : StartRuntime(f)
    \/ \E v \in BOOLEAN : VerifySessdataDone(v)
    \/ StopRuntime
    \/ \E b \in BOOLEAN : SetQueuePaused(b)
    \/ \E t \in SchedTimes : SetAutoPauseTime(t)
    \/ PauseCheck
    \/ PauseCheckRaises
    \/ Tick
    \/ \E c \in SchedConfigs, f \in FetchOutcomes : UpdateConfig(c, FALSE, f)
    \/ \E v \in BOOLEAN : UpdateVerifyDone(v)
    \/ OrphanClosed
    \/ Shutdown

SpecSched == InitSched /\ [][NextSched]_vars

FairSched ==
    /\ SpecSched
    /\ WF_vars(\E v \in BOOLEAN : VerifySessdataDone(v))
    /\ WF_vars(\E v \in BOOLEAN : UpdateVerifyDone(v))
    /\ SF_vars(PauseCheck)

(***************************************************************************)
(* SpecMode: the choice of the chat mode.  The configuration loaded is any *)
(* combination of a preference, open-platform credentials, a web cookie    *)
(* and a room; start_runtime applies select_danmaku_mode to it.            *)
(***************************************************************************)
ModeConfigs ==
    { AppConfig(<<"k">>, "exact", 1, FALSE,
                BiliConfig(m, ol, WebDanmakuConfig(s, r, FALSE))) :
        m \in {"auto", "web", "open_live"},
        ol \in {OpenLiveSet, OpenLiveUnset},
        s \in {<<>>, <<" ">>, <<"s">>},
        r \in {0, 1} }

InitMode ==
    /\ InitRest
    /\ cfg \in ModeConfigs
    /\ runtime = RuntimeState(cfg)
    /\ danmaku_task = "none"
    /\ client = <<>>
    /\ stream = 0

NextMode ==
    \/ \E f \in FetchOutcomes : StartRuntime(f)
    \/ \E v \in BOOLEAN : VerifySessdataDone(v)
    \/ StopRuntime
    \/ OrphanClosed

SpecMode == InitMode /\ [][NextMode]_vars

(***************************************************************************)
(* SpecCap: the capacity under reconfiguration.  While the test page       *)
(* admits users and the admin removes them, update_config installs         *)
(* configurations that differ in max_queue.                                *)
(***************************************************************************)
CapConfigs ==
    { AppConfig(<<"k">>, "exact", n, TRUE, WithOpenLive) : n \in 0..MaxQueue }

InitCap ==
    /\ InitRest
    /\ cfg \in CapConfigs
    /\ runtime = RuntimeState(cfg)
    /\ danmaku_task = "none"
    /\ client = <<>>
    /\ stream = 0

NextCap ==
    \/ \E f \in FetchOutcomes : StartRuntime(f)
    \/ StopRuntime
    \/ \E c \in CapConfigs, r \in BOOLEAN, f \in FetchOutcomes :
          UpdateConfig(c, r, f)
    \/ \E u \in TestUnames : ApiTestDanmaku(u, <<"k">>)
    \/ \E k \in Users : ApiQueueRemove(k)
    \/ OrphanClosed

SpecCap == InitCap /\ [][NextCap]_vars

(***************************************************************************)
(* SpecLock: the tasks around the mutation lock.  The consumer, suspended  *)
(* producers, the pause checker, the chat-client task and its crash        *)
(* handler run while the controller is started, stopped, paused and        *)
(* reconfigured; start_runtime and update_config keep the lock while       *)
(* verify_sessdata is awaited.  No page is connected: WsHub takes its own  *)
(* lock around statements that do not suspend (ws.py:15-27), so a          *)
(* broadcast returns at once.  FairLock adds what the event loop and       *)
(* asyncio.Lock guarantee: the verification answers (bili_utils.py:57),    *)
(* a task that can run is run, and a task queued for the lock gets it.     *)
(***************************************************************************)
LockConfigs ==
    { AppConfig(<<"k">>, "exact", 1, TRUE, WithWeb),
      AppConfig(<<"k">>, "exact", 1, TRUE, WithOpenLive) }

LockEvent == DanmakuEvent(<<"a">>, <<"k">>, <<"a">>)

InitLock ==
    /\ InitRest
    /\ cfg = AppConfig(<<"k">>, "exact", 1, TRUE, WithWeb)
    /\ runtime = RuntimeState(cfg)
    /\ danmaku_task = "none"
    /\ client = <<>>
    /\ stream = EventQMaxsize + 1

NextLock ==
    \/ \E f \in FetchOutcomes : StartRuntime(f)
    \/ \E v \in BOOLEAN : VerifySessdataDone(v)
    \/ StopRuntime
    \/ \E c \in LockConfigs, f \in FetchOutcomes : UpdateConfig(c, FALSE, f)
    \/ \E v \in BOOLEAN : UpdateVerifyDone(v)
    \/ \E b \in BOOLEAN : SetQueuePaused(b)
    \/ PauseCheck
    \/ RunnerCrash
    \/ RunnerCrashRecord
    \/ OrphanClosed
    \/ OrphanCloseRaises
    \/ PutStart(LockEvent)
    \/ PutResume
    \/ ConsumerGet
    \/ ConsumerProcess
    \/ ConsumerBroadcastDone

SpecLock == InitLock /\ [][NextLock]_vars

FairLock ==
    /\ SpecLock
    /\ WF_vars(\E v \in BOOLEAN : VerifySessdataDone(v))
    /\ WF_vars(\E v \in BOOLEAN : UpdateVerifyDone(v))
    /\ WF_vars(PutResume)
    /\ WF_vars(ConsumerGet)
    /\ WF_vars(ConsumerBroadcastDone)
    /\ SF_vars(ConsumerProcess)
    /\ SF_vars(RunnerCrashRecord)

(***************************************************************************)
(* SpecHub: the broadcasts.  The controller runs with open-platform        *)
(* credentials and room for one user; pages connect and go, the room       *)
(* delivers two chat lines, one of them with a blank key, the admin        *)
(* removes the user, and the sends to the pages end in any order across    *)
(* pages.                                                                  *)
(***************************************************************************)
\* what _Handler builds for user a, and for user b when the platform's
\* open_id is one blank (danmaku.py:43: `message.open_id or message.uname`)
HubEvents ==
    { DanmakuEvent(<<"a">>, <<"k">>, <<"a">>),
      DanmakuEvent(<<"b">>, <<"k">>, <<" ">>) }

InitHub ==
    /\ InitRest
    /\ cfg = AppConfig(<<"k">>, "exact", 1, FALSE, WithOpenLive)
    /\ runtime = Running(cfg, "open_live")
    /\ danmaku_task = "running"
    /\ client = Client(cfg, "open_live", <<>>)
    /\ stream = 2

NextHub ==
    \/ \E ws \in Subscribers : WsAdd(ws)
    \/ \E ws \in Subscribers : WsRemove(ws)
    \/ \E ev \in HubEvents : PutStart(ev)
    \/ ConsumerGet
    \/ ConsumerProcess
    \/ ConsumerBroadcastDone
    \/ \E k \in {<<"a">>, <<"b">>} : ApiQueueRemove(k)
    \/ \E i \in 1..MaxInflight, ws \in Subscribers : SafeSendOk(i, ws)
    \/ \E i \in 1..MaxInflight, ws \in Subscribers : SafeSendRaises(i, ws)
    \/ \E i \in 1..MaxInflight : BroadcastReturns(i)

SpecHub == InitHub /\ [][NextHub]_vars

(***************************************************************************)
(* SpecQueue: QueueCore alone.  A capacity N is fixed at the start and     *)
(* every enqueue is called with max_queue = N; the four operations are     *)
(* called in any order with any key.                                       *)
(***************************************************************************)
InitQueue ==
    /\ InitRest
    /\ \E n \in 0..MaxCapacity :
          cfg = AppConfig(<<"k">>, "exact", n, FALSE, WithOpenLive)
    /\ runtime = RuntimeState(cfg)
    /\ danmaku_task = "none"
    /\ client = <<>>
    /\ stream = 0

QueueEnqueue(user_key) ==
    LET r == enqueue(current, waiting, user_key, user_key, cfg.max_queue) IN
    /\ current' = r.current
    /\ waiting' = r.waiting
    /\ ret' = Return("enqueue", user_key, r.ok, r.reason)
    /\ emitted' = <<>>
    /\ WsBroadcast
    /\ UNCHANGED <<cvars, ivars, dvars, kvars>>

QueueRemove(user_key) ==
    LET r == remove(current, waiting, user_key) IN
    /\ current' = r.current
    /\ waiting' = r.waiting
    /\ ret' = Return("remove", user_key, r.ok, "")
    /\ emitted' = <<>>
    /\ WsBroadcast
    /\ UNCHANGED <<cvars, ivars, dvars, kvars>>

QueuePinTop(user_key) ==
    LET r == pin_top(current, waiting, user_key) IN
    /\ current' = r.current
    /\ waiting' = r.waiting
    /\ ret' = Return("pin_top", user_key, r.ok, "")
    /\ emitted' = <<>>
    /\ WsBroadcast
    /\ UNCHANGED <<cvars, ivars, dvars, kvars>>

QueueSetMarked(user_key, marked) ==
    LET r == set_marked(current, waiting, user_key, marked) IN
    /\ current' = r.current
    /\ waiting' = r.waiting
    /\ ret' = Return("set_marked", user_key, r.ok, "")
    /\ emitted' = <<>>
    /\ WsBroadcast
    /\ UNCHANGED <<cvars, ivars, dvars, kvars>>

NextQueue ==
    \/ \E k \in Users : QueueEnqueue(k)
    \/ \E k \in Users : QueueRemove(k)
    \/ \E k \in Users : QueuePinTop(k)
    \/ \E k \in Users, m \in BOOLEAN : QueueSetMarked(k, m)

SpecQueue == InitQueue /\ [][NextQueue]_vars

(***************************************************************************)
(* Claims about QueueCore, checked under SpecQueue.                        *)
(***************************************************************************)
\* The keys held, current first, read without the queue's own helpers.
HeldKeys ==
    [i \in 1..Len(current \o waiting) |-> (current \o waiting)[i].user_key]

Present(user_key) == \E i \in 1..Len(HeldKeys) : HeldKeys[i] = user_key

\* C1: with the capacity fixed at N, after any sequence of enqueue, remove,
\* pin_top and set_marked from the empty queue, the number of items held
\* (current plus waiting) is at most N.
C1_Capacity == Len(current) + Len(waiting) <= cfg.max_queue

\* C1 witness: a queue filled to a capacity of at least 2 has just turned
\* another user away.
C1_Witness ==
    /\ ret.op = "enqueue" /\ ret.reason = "full"
    /\ cfg.max_queue >= 2
    /\ Len(current) + Len(waiting) = cfg.max_queue

\* C10: enqueue of a key that is already held, as current or anywhere in
\* waiting, returns (false, duplicate) and leaves current and waiting as
\* they were, also when the queue is at capacity.
C10_Duplicate ==
    [][(ret'.op = "enqueue" /\ Present(ret'.key))
        => /\ ret'.ok = FALSE
           /\ ret'.reason = "duplicate"
           /\ current' = current
           /\ waiting' = waiting]_vars

\* C10 witness: a key held in waiting was enqueued again while the queue was
\* at capacity, and the call answered duplicate.
C10_Witness ==
    /\ ret.op = "enqueue" /\ ret.reason = "duplicate"
    /\ \E i \in 1..Len(waiting) : waiting[i].user_key = ret.key
    /\ Len(current) + Len(waiting) = cfg.max_queue


\* C3: in every reachable queue state current is empty only if waiting is
\* empty: after any enqueue, remove, pin_top or set_marked a non-empty
\* queue has its head in current.
C3_HeadInCurrent == current = <<>> => waiting = <<>>

\* C3 witness: a remove succeeded and the queue it left is not empty, with
\* an item in current.
C3_Witness ==
    /\ ret.op = "remove" /\ ret.ok
    /\ ~Present(ret.key)
    /\ current # <<>>
    /\ waiting # <<>>

(***************************************************************************)
(* Claims about the controller, checked under Spec.                        *)
(***************************************************************************)
\* C2: in every reachable state a user_key occurs at most once across
\* current and waiting, whatever admitted events and admin calls led there.
C2_UniqueKeys ==
    \A i, j \in 1..Len(HeldKeys) : HeldKeys[i] = HeldKeys[j] => i = j

\* C2 witness: two users are held and an admission of one of them has just
\* been turned away as a duplicate.
C2_Witness ==
    /\ ret.op \in {"consumer:process_event", "api_test_danmaku"}
    /\ ret.reason = "duplicate"
    /\ Len(current) = 1 /\ Len(waiting) >= 1

(***************************************************************************)
(* Claims about concurrent callers, checked under SpecConc.                *)
(***************************************************************************)
AllReturned == \A u \in Users : callers[u] \notin {"idle", "waiting"}

Answered(reason) == {u \in Users : callers[u] = reason}

\* C4: K distinct users submitted concurrently through process_event
\* against max_queue = N (K >= N, running, not paused, keyword matching,
\* queue empty at the start): once all have returned, exactly N were
\* answered ok and the other K - N were answered full, in every
\* interleaving; at no point have more than N been answered ok.
C4_ExactlyN ==
    /\ Cardinality(Answered("ok")) <= cfg.max_queue
    /\ AllReturned =>
         /\ Cardinality(Answered("ok")) = cfg.max_queue
         /\ Cardinality(Answered("full")) = Cardinality(Users) - cfg.max_queue

\* C4 witness: all callers have returned against a capacity of at least 2
\* that is smaller than their number.
C4_Witness ==
    /\ AllReturned
    /\ cfg.max_queue >= 2
    /\ cfg.max_queue < Cardinality(Users)
    /\ Len(current) + Len(waiting) = cfg.max_queue

(***************************************************************************)
(* Claims about the ingestion channel, checked under SpecIngest and under  *)
(* FairIngest.                                                             *)
(***************************************************************************)
\* The ids of the events held in a sequence of channel entries.
IdsOf(entries) == [i \in 1..Len(entries) |-> entries[i].id]

Count(ids, id) == Cardinality({i \in 1..Len(ids) : ids[i] = id})

\* The number of places event id is in: pending in the channel, with a
\* suspended or a woken producer, in the consumer's hands, or consumed.
Places(id) ==
    Count(IdsOf(event_q), id) + Count(IdsOf(putters), id)
    + Count(IdsOf(woken), id) + Count(consumed, id)
    + (IF consumer.pc = "process" /\ consumer.id = id THEN 1 ELSE 0)

Consumed(id) == \E i \in 1..Len(consumed) : consumed[i] = id

\* C5: events are admitted in arrival order: of two events, the one whose
\* push started first has the admission rule applied to it first, also when
\* the channel was full and producers were suspended. Pushes are numbered in
\* the order they start, so the ids consumed must be increasing.
C5_ArrivalOrder ==
    \A i, j \in 1..Len(consumed) : i < j => consumed[i] < consumed[j]

Trimmed(s) ==
    LET solid == {i \in 1..Len(s) : s[i] # " "} IN
    IF solid = {} THEN <<>>
    ELSE SubSeq(s, CHOOSE i \in solid : \A j \in solid : i <= j,
                   CHOOSE i \in solid : \A j \in solid : i >= j)

Substring(sub, s) ==
    \E i, j \in 1..Len(s) : SubSeq(s, i, j) = sub

\* The key an event is queued under.
KeyOf(ev) == Trimmed(IF ev.user_key # <<>> THEN ev.user_key ELSE ev.uname)

CheckOrder ==
    << "not_running", "paused", "no_keyword", "no_match", "no_user_key",
       "duplicate", "full", "ok" >>

\* Which of the checks fail for an event in the present state, in CheckOrder.
Fails(ev) ==
    << runtime.status # "running",
       runtime.queue_paused,
       Trimmed(cfg.keyword) = <<>>,
       IF cfg.match_mode = "exact"
       THEN Trimmed(ev.msg) # Trimmed(cfg.keyword)
       ELSE ~Substring(Trimmed(cfg.keyword), Trimmed(ev.msg)),
       KeyOf(ev) = <<>>,
       Present(KeyOf(ev)),
       Len(current) + Len(waiting) >= cfg.max_queue,
       TRUE >>

FirstFailing(ev) ==
    CheckOrder[CHOOSE i \in 1..8 :
                  Fails(ev)[i] /\ \A j \in 1..(i - 1) : ~Fails(ev)[j]]

AdmissionOps == {"consumer:process_event", "api_test_danmaku"}

\* C8: a rejection changes nothing: when process_event returns a reason
\* other than ok, the queue and the runtime state are as before the call;
\* the result is one of the eight reasons, returned as a value; and the
\* changed flag is true exactly when the reason is ok.
C8_RejectionChangesNothing ==
    [][ret'.op \in AdmissionOps =>
         /\ ret'.reason \in {CheckOrder[i] : i \in 1..8}
         /\ ret'.ok <=> (ret'.reason = "ok")
         /\ ret'.reason # "ok" =>
              /\ current' = current
              /\ waiting' = waiting
              /\ runtime' = runtime
              /\ cfg' = cfg
      ]_vars

\* C8 witness: the consumer's call was answered full and the queue, at two
\* or more items, is as it was.
C8_Witness ==
    /\ ret.op = "consumer:process_event"
    /\ ret.reason = "full"
    /\ Len(waiting) >= 1

MutationOps ==
    AdmissionOps \cup
    {"api_queue_remove", "api_queue_pin_top", "api_queue_toggle_mark"}

\* The payload p shows the present queue and runtime state.
ShowsPresent(p) ==
    /\ p.queue.items = current \o waiting
    /\ p.queue.total = Len(current) + Len(waiting)
    /\ p.queue.max_queue = cfg.max_queue
    /\ p.queue.paused = runtime.queue_paused
    /\ p.runtime.status = runtime.status
    /\ p.runtime.queue_paused = runtime.queue_paused
    /\ p.runtime.test_enabled = runtime.test_enabled

\* C9: broadcasts correspond one-to-one to accepted mutations: an admitted
\* event and an admin remove, pin_top or set_marked that returns true are
\* each followed by exactly one broadcast, which carries the snapshot after
\* the mutation; a rejected admission (and an admin call that returns
\* false) triggers no broadcast.
C9_OneBroadcast ==
    ret.op \in MutationOps =>
        IF ret.ok
        THEN Len(emitted) = 1 /\ ShowsPresent(emitted[1])
        ELSE emitted = <<>>

\* C9 witness: a remove took the current item out, the next one was
\* promoted, and one broadcast went out.
C9_Witness ==
    /\ ret.op = "api_queue_remove" /\ ret.ok
    /\ current # <<>>
    /\ Len(emitted) = 1

(***************************************************************************)
(* Claims about the order of the queue, checked under SpecQueue.           *)
(***************************************************************************)
\* The items held, current first, and the same without the item of a key.
Held == current \o waiting

Without(items, user_key) ==
    LET Other(it) == it.user_key # user_key IN SelectSeq(items, Other)

InWaiting(user_key) == \E i \in 1..Len(waiting) : waiting[i].user_key = user_key

IsCurrent(user_key) == current # <<>> /\ current[1].user_key = user_key

\* C11: an accepted enqueue puts the new, unmarked item in current when
\* current is empty and otherwise at the tail of waiting, so each admission
\* extends the snapshot order (current, then waiting) at its end and,
\* without remove or pin_top, the snapshot lists the users as admitted.
C11_AdmissionOrder ==
    [][(ret'.op = "enqueue" /\ ret'.ok) =>
         LET item == [user_key |-> ret'.key, uname |-> ret'.key,
                      marked |-> FALSE] IN
         /\ IF current = <<>>
            THEN current' = <<item>> /\ waiting' = waiting
            ELSE current' = current /\ waiting' = Append(waiting, item)
         /\ Held' = Append(Held, item)
         /\ to_dict(current', waiting', cfg.max_queue).items
                = Append(Held, item)
      ]_vars

\* C11 witness: a user was admitted behind a current item and two waiting
\* ones and is last in waiting.
C11_Witness ==
    /\ ret.op = "enqueue" /\ ret.ok
    /\ Len(waiting) >= 3
    /\ waiting[Len(waiting)].user_key = ret.key

\* C12: remove(k) deletes exactly the item with key k and keeps the order
\* of the others: if k is current and waiting is not empty, waiting[0]
\* becomes current and the rest of waiting keeps its order; if k is in
\* waiting it is taken out in place; if k is absent the call returns false
\* and the queue is unchanged.
C12_RemoveKeepsOrder ==
    [][ret'.op = "remove" =>
         LET k == ret'.key IN
         /\ ret'.ok <=> Present(k)
         /\ Held' = Without(Held, k)
         /\ IsCurrent(k) =>
              IF waiting # <<>>
              THEN current' = <<waiting[1]>> /\ waiting' = Tail(waiting)
              ELSE current' = <<>> /\ waiting' = <<>>
         /\ InWaiting(k) =>
              current' = current /\ waiting' = Without(waiting, k)
         /\ ~Present(k) => current' = current /\ waiting' = waiting
      ]_vars

\* C12 witness: the current item of a queue of four was removed and two
\* items are still waiting behind the promoted one.
C12_Witness ==
    /\ ret.op = "remove" /\ ret.ok
    /\ ~Present(ret.key)
    /\ current # <<>>
    /\ Len(waiting) = 2
    /\ cfg.max_queue >= 4

\* C13: pin_top(k) returns false and changes nothing when k is current or
\* is not in waiting; when k is in waiting it moves that item to index 0 of
\* waiting, leaves current untouched, keeps the order of the other waiting
\* items and keeps the set of queued users.
C13_PinTop ==
    [][ret'.op = "pin_top" =>
         LET k == ret'.key IN
         /\ ret'.ok <=> InWaiting(k)
         /\ current' = current
         /\ ~InWaiting(k) => waiting' = waiting
         /\ InWaiting(k) =>
              /\ waiting'[1].user_key = k
              /\ Tail(waiting') = Without(waiting, k)
              /\ \E i \in 1..Len(waiting) : waiting[i] = waiting'[1]
         /\ {Held'[i].user_key : i \in 1..Len(Held')}
              = {Held[i].user_key : i \in 1..Len(Held)}
      ]_vars

\* C13 witness: the last of three waiting items was pinned and is now at
\* index 0 of waiting.
C13_Witness ==
    /\ ret.op = "pin_top" /\ ret.ok
    /\ Len(waiting) = 3
    /\ waiting[1].user_key = ret.key

(***************************************************************************)
(* Claims about the lifecycle, checked under SpecLife.                     *)
(***************************************************************************)
\* The minute of the day a configured time names, for the times the
\* configurations of the model hold; -1 for none and for no time of day.
MinuteOfDay(time_str) == IF time_str = At0001 THEN 1 ELSE -1

\* The first minute after t that falls on minute m of a day.
NextOccurrence(m, t) ==
    CHOOSE x \in (t + 1)..(t + 24 * 60) : x % (24 * 60) = m

\* C14: after start_runtime returns success, status is running,
\* danmaku_status is running, queue_paused is false with the reason
\* cleared, the stored auto-pause trigger is the next occurrence of the
\* configured auto-pause time (empty when no time of day is configured),
\* and a chat-client task exists.
C14_StartSucceeds ==
    (ret.op = "start_runtime" /\ ret.ok) =>
        /\ runtime.status = "running"
        /\ runtime.danmaku_status = "running"
        /\ runtime.queue_paused = FALSE
        /\ runtime.queue_pause_reason = ""
        /\ runtime.queue_pause_until_ts =
             IF MinuteOfDay(cfg.auto_pause_time) = -1 THEN <<>>
             ELSE <<NextOccurrence(MinuteOfDay(cfg.auto_pause_time), now)>>
        /\ danmaku_task \in {"running", "crashing"}
        /\ client # <<>>

\* C14 witness: a start at 00:01 or later with 00:01 configured stored
\* tomorrow's 00:01.
C14_Witness ==
    /\ ret.op = "start_runtime" /\ ret.ok
    /\ now >= 1
    /\ runtime.queue_pause_until_ts = <<24 * 60 + 1>>

\* Whether start_runtime called with this browser outcome cannot get past
\* mode resolution and credential fetching.
CannotPrepare(f) ==
    \/ cfg.bilibili.web.auto_fetch_cookie /\ f.err # ""
    \/ cfg.bilibili = WithNothing

\* C15: when start_runtime is called on a stopped controller and mode
\* resolution, credential fetching or credential verification fails, the
\* call returns (false, reason), status stays stopped, no chat-client task
\* is created and the queue is unchanged.
C15_StartFails ==
    [][/\ \A f \in FetchOutcomes :
            (StartRuntime(f) /\ CannotPrepare(f)) =>
                ret'.op = "start_runtime" /\ ~ret'.ok
       /\ VerifySessdataDone(FALSE) => ~ret'.ok
       /\ (ret'.op = "start_runtime" /\ ~ret'.ok
           /\ runtime.status = "stopped") =>
                /\ ret'.reason # ""
                /\ runtime'.status = "stopped"
                /\ danmaku_task' = "none"
                /\ client' = <<>>
                /\ orphans' = orphans
                /\ current' = current
                /\ waiting' = waiting
      ]_vars

\* C15 witness: the verification of the cookie failed, with a user queued.
C15_Witness ==
    /\ ret.op = "start_runtime" /\ ~ret.ok
    /\ ret.reason = "SESSDATA invalid"
    /\ runtime.status = "stopped"
    /\ current # <<>>

\* The reasons select_danmaku_mode gives when no chat mode is usable.
NoModeReasons ==
    { "missing danmaku config", "open_live config incomplete",
      "web.sessdata is required", "web.room_id is required" }

NoUsableMode ==
    ret'.op = "start_runtime" /\ ~ret'.ok /\ ret'.reason \in NoModeReasons

MalformedTime ==
    ret'.op = "set_auto_pause_time" /\ ~ret'.ok

\* C16 as stated: when start_runtime fails because no chat mode is usable,
\* or set_auto_pause_time is given a malformed time string, every field of
\* RuntimeState has the same value after the call as before it.
C16_RuntimeUnchanged ==
    [][(NoUsableMode \/ MalformedTime) => runtime' = runtime]_vars

\* C16 as amended: a malformed time string leaves every field of
\* RuntimeState as it was; a start that fails because no chat mode is usable
\* records the failure (danmaku_status error, danmaku_error the reason,
\* active_mode empty) and leaves every other field as it was.
C16_ErrorRecorded ==
    [][/\ MalformedTime => runtime' = runtime
       /\ NoUsableMode =>
            /\ runtime'.danmaku_status = "error"
            /\ runtime'.danmaku_error = ret'.reason
            /\ runtime'.active_mode = ""
            /\ \A f \in DOMAIN runtime \
                    {"danmaku_status", "danmaku_error", "active_mode"} :
                 runtime'[f] = runtime[f]
      ]_vars

\* C16 witness: a malformed time was turned away while a time is set and
\* its trigger is stored.
C16_Witness ==
    /\ ret.op = "set_auto_pause_time" /\ ~ret.ok
    /\ runtime.queue_auto_pause_time = At0001
    /\ runtime.queue_pause_until_ts # <<>>

\* The fields stop_runtime resets, at their reset values.
StoppedClean(rt) ==
    /\ rt.status = "stopped"
    /\ rt.danmaku_status = "idle"
    /\ rt.danmaku_error = ""
    /\ rt.active_mode = ""
    /\ rt.queue_paused = FALSE
    /\ rt.queue_pause_reason = ""
    /\ rt.queue_pause_until_ts = <<>>

\* The steps of a chat-client task's runner.
RunnerOps ==
    { "runner:join raised", "runner:except Exception", "runner:cancelled",
      "runner:cancelled, except Exception" }

\* C17: after stop_runtime completes, status is stopped, danmaku_status is
\* idle, danmaku_error and active_mode are empty, queue_paused is false
\* with the reason and the stored trigger cleared, and no later write by
\* the cancelled chat-client task changes these fields before the next
\* start or configuration update.
C17_StopIsFinal ==
    [][/\ ret'.op = "stop_runtime" => StoppedClean(runtime')
       /\ (StoppedClean(runtime) /\ ret'.op \in RunnerOps) =>
            StoppedClean(runtime')
      ]_vars

\* C18: when the chat-client task fails with an exception other than a
\* cancellation, danmaku_status becomes error with a message, status stays
\* running, the queue is unchanged, and a later matching test message is
\* still admitted.
C18_CrashIsRecorded ==
    [][/\ RunnerCrashRecord =>
            /\ runtime'.danmaku_status = "error"
            /\ runtime'.danmaku_error # ""
            /\ runtime.status = "running"
            /\ runtime'.status = "running"
            /\ current' = current
            /\ waiting' = waiting
       /\ (/\ ApiTestDanmaku(<<"c">>, <<"k">>)
           /\ runtime.status = "running"
           /\ runtime.danmaku_status = "error"
           /\ danmaku_task = "done"
           /\ runtime.test_enabled
           /\ ~runtime.queue_paused
           /\ current = <<>>) =>
            /\ ret'.ok
            /\ current' # <<>>
            /\ current'[1].user_key = <<"c">>
      ]_vars

\* C18 witness: a test message was admitted after the task's failure had
\* been recorded.
C18_Witness ==
    /\ ret.op = "api_test_danmaku" /\ ret.ok
    /\ runtime.status = "running"
    /\ runtime.danmaku_status = "error"
    /\ runtime.danmaku_error # ""
    /\ danmaku_task = "done"
    /\ current # <<>>

\* Credentials with the cookie left out: a cookie may be fetched from the
\* browser when the effective configuration is made.
SansCookie(bili) == [bili EXCEPT !.web.sessdata = <<>>]

\* C19: a configuration update applied while the runtime is running leaves
\* current, waiting and their order and the status (running) unchanged,
\* while the old chat-client task is torn down and a new one is created
\* from the new effective configuration.
C19_UpdateRestarts ==
    [][(ret'.op = "update_config" /\ ret'.ok /\ runtime.status = "running") =>
            /\ current' = current
            /\ waiting' = waiting
            /\ runtime'.status = "running"
            /\ danmaku_task = "running" => orphans' = orphans + 1
            /\ danmaku_task' = "running"
            /\ client' # <<>>
            /\ SansCookie(client'[1].bili) = SansCookie(cfg'.bilibili)
      ]_vars

(***************************************************************************)
(* Claims about the admin routes, checked under Spec.                      *)
(***************************************************************************)
AdminOps == { "api_queue_remove", "api_queue_pin_top", "api_queue_toggle_mark" }

\* C20: remove, pin_top and set_marked through the admin routes are valid
\* only while the runtime is running: when it is stopped each is rejected
\* without touching the queue, and together with the not_running rule of
\* admission the queue never changes while the runtime is stopped.
C20_StoppedQueueFrozen ==
    [][runtime.status = "stopped" =>
            /\ current' = current
            /\ waiting' = waiting
            /\ ret'.op \in AdminOps => (~ret'.ok /\ ret'.reason = "400")
      ]_vars

\* C20 witness: a remove of the current user was turned away while stopped,
\* with users queued.
C20_Witness ==
    /\ ret.op = "api_queue_remove" /\ ~ret.ok /\ ret.reason = "400"
    /\ runtime.status = "stopped"
    /\ current # <<>>
    /\ waiting # <<>>

(***************************************************************************)
(* Claims about identities (under SpecHub) and secrets (under Spec).       *)
(***************************************************************************)
\* The event passes the checks that come before the one of its identity.
ReachesIdentity(ev) ==
    \A i \in 1..4 : ~Fails(ev)[i]

\* C21: an event is rejected with no_user_key only when both its user_key
\* and its display name are empty after trimming; when the user_key is
\* empty or blank and the display name is not, the display name is the
\* identity and the event goes on to enqueue.
C21_NameIsFallback ==
    [][ConsumerProcess =>
         LET ev == consumer.ev IN
         /\ ret'.reason = "no_user_key" =>
              Trimmed(ev.user_key) = <<>> /\ Trimmed(ev.uname) = <<>>
         /\ (/\ ReachesIdentity(ev)
             /\ Trimmed(ev.user_key) = <<>>
             /\ Trimmed(ev.uname) # <<>>) =>
              /\ ret'.reason \in {"ok", "duplicate", "full"}
              /\ ret'.reason = "ok" =>
                   HeldKeys' = Append(HeldKeys, Trimmed(ev.uname))
      ]_vars

\* Values a secret can have when it is set, one of them a blank.
Secrets == { <<"s">>, <<"t">>, <<" ">> }

\* The configuration c with the two secrets replaced.
WithSecrets(c, sessdata, access_secret) ==
    [c EXCEPT !.bilibili.web.sessdata = sessdata,
              !.bilibili.open_live.access_secret = access_secret]

\* The placeholder: eight asterisks.
Placeholder == [i \in 1..8 |-> "*"]

\* How a secret is to be shown.
Shown(secret) == IF secret = <<>> THEN <<>> ELSE Placeholder

\* The snapshot of the present state under configuration c.
Snapshot(c) == state_payload(current, waiting, runtime, c)

\* C22: the snapshot never reveals a secret: for any two configurations
\* that differ only in the value of a non-empty sessdata or access_secret
\* the snapshots are identical, each showing the fixed placeholder, and an
\* empty secret is shown as empty.
C22_SecretsMasked ==
    /\ \A a, b \in Secrets :
          Snapshot(WithSecrets(cfg, a, b)) =
          Snapshot(WithSecrets(cfg, <<"s">>, <<"s">>))
    /\ \A a \in Secrets \cup {<<>>} :
          LET p == Snapshot(WithSecrets(cfg, a, a)).config.bilibili IN
          /\ p.web.sessdata = Shown(a)
          /\ p.open_live.access_secret = Shown(a)
    /\ \A i \in 1..Len(emitted) :
          LET p == emitted[i].config.bilibili IN
          /\ p.web.sessdata = Shown(cfg.bilibili.web.sessdata)
          /\ p.open_live.access_secret =
                Shown(cfg.bilibili.open_live.access_secret)

\* C22 witness: a snapshot was sent out while a cookie is configured, and
\* it shows the placeholder.
C22_Witness ==
    /\ emitted # <<>>
    /\ cfg.bilibili.web.sessdata = <<"s">>
    /\ emitted[1].config.bilibili.web.sessdata = Placeholder
    /\ emitted[1].config.bilibili.open_live.access_secret = <<>>

(***************************************************************************)
(* Claims about the auto-pause time, checked under SpecTime.               *)
(***************************************************************************)
\* The times of day among ClockStrs, with their minute of the day.
TimesOfDay ==
    { <<At0900, 9 * 60>>, <<At0000, 0>>, <<At2359, 23 * 60 + 59>> }

\* What compute_next is to return for time_str at clock t.
ComputeNext(time_str, t) ==
    IF \E e \in TimesOfDay : e[1] = time_str
    THEN <<NextOccurrence((CHOOSE e \in TimesOfDay : e[1] = time_str)[2], t)>>
    ELSE <<>>

\* C24: _next_timestamp_for_time_str for a valid HH:MM string returns the
\* next occurrence of that wall-clock time: today's when the time of day
\* is before HH:MM (09:00 at 08:59 gives today 09:00), tomorrow's when it
\* is after (09:00 at 09:01 gives tomorrow 09:00); for an empty or
\* malformed string it returns none.
C24_NextOccurrence ==
    /\ (ret.op = "start_runtime" /\ ret.ok) =>
          runtime.queue_pause_until_ts = ComputeNext(cfg.auto_pause_time, now)
    /\ (ret.op = "set_auto_pause_time" /\ ret.ok) =>
          runtime.queue_pause_until_ts =
              ComputeNext(runtime.queue_auto_pause_time, now)
    /\ (/\ ret.op \in {"start_runtime", "set_auto_pause_time"} /\ ret.ok
        /\ runtime.queue_auto_pause_time = At0900) =>
          /\ now = 8 * 60 + 59 => runtime.queue_pause_until_ts = <<9 * 60>>
          /\ now = 9 * 60 + 1 =>
                runtime.queue_pause_until_ts = <<24 * 60 + 9 * 60>>

\* C24 witness: 09:00 was typed at 09:01 and tomorrow's 09:00 is stored.
C24_Witness ==
    /\ ret.op = "set_auto_pause_time" /\ ret.ok
    /\ now = 9 * 60 + 1
    /\ runtime.queue_auto_pause_time = At0900
    /\ runtime.queue_pause_until_ts = <<24 * 60 + 9 * 60>>

(***************************************************************************)
(* Claims about the chat-client task and the mutation lock.                *)
(***************************************************************************)
\* The chat-client tasks that have started and not finished their clean-up:
\* the one the controller holds, and cancelled ones still closing.
AliveTasks == (IF danmaku_task \in {"running", "crashing"} THEN 1 ELSE 0)
              + orphans

\* C25: at any time at most one chat-client task is alive (started and not
\* yet through its clean-up), across every interleaving of start, stop,
\* restart on a configuration change and crash.
C25_OneTaskAlive == AliveTasks <= 1

\* C26: cancellation is acknowledged before the caller continues: when
\* stop_runtime, or the restart inside a configuration update, returns,
\* the task it cancelled has stopped its client and closed its session.
C26_CancelAcknowledged ==
    [][ret'.op \in {"stop_runtime", "update_config"} => orphans' <= orphans
      ]_vars

\* C27: start_runtime retrieves the cookie and verifies the credentials
\* before it takes the mutation lock: in no reachable state is the lock
\* held while that request is pending.
C27_NoLockAcrossVerify == starter.pc = "verify" => lock = "free"

\* C28: every write of the queue is made by a task that holds the mutation
\* lock: the admin operations remove, pin_top and set_marked take the same
\* lock, so they never change the queue while another task is inside a
\* critical section.
C28_AdminUnderLock ==
    [][(ret'.op \in AdminOps /\ ret'.ok) => lock = "free"]_vars

(***************************************************************************)
(* Claims about the broadcasts, checked under SpecHub.                     *)
(***************************************************************************)
\* The i-th broadcast in delivery apart from what became of the send to ws.
Others(b, ws) ==
    [by |-> b.by, payload |-> b.payload, targets |-> b.targets,
     pending |-> b.pending \ {ws}, got |-> b.got \ {ws},
     failed |-> b.failed \ {ws}]

\* C23: a delivery failure to one subscriber during a broadcast is
\* isolated: the failing subscriber is removed from the registry, every
\* other registered subscriber still receives the snapshot and stays
\* registered, and broadcast returns normally.
C23_FailureIsolated ==
    [][/\ \A i \in 1..Len(inflight), ws \in Subscribers :
            SafeSendRaises(i, ws) =>
                /\ conns' = conns \ {ws}
                /\ Len(inflight') = Len(inflight)
                /\ \A j \in 1..Len(inflight) :
                      Others(inflight'[j], ws) = Others(inflight[j], ws)
                /\ i \in 1..Len(inflight') => ws \in inflight'[i].failed
       /\ \A i \in 1..Len(inflight) :
            BroadcastReturns(i) =>
                /\ ret'.ok
                /\ inflight[i].got = inflight[i].targets \ inflight[i].failed
                /\ conns' = conns
      ]_vars

\* C23 witness: a broadcast to two subscribers is over; the send to one
\* raised and it is gone from the registry, the other received the payload
\* and is registered.
C23_Witness ==
    \E i \in 1..Len(inflight) :
        /\ inflight[i].targets = Subscribers
        /\ inflight[i].pending = {}
        /\ inflight[i].failed = {"w1"}
        /\ inflight[i].got = {"w2"}
        /\ conns = {"w2"}

\* C29: a broadcast never blocks a state mutation: the mutation lock is not
\* held while a broadcast is being delivered, and while a delivery to a
\* slow subscriber is pending the consumer is not kept from the events
\* that wait in the channel.
C29_BroadcastBlocksNothing ==
    inflight # <<>> =>
        /\ lock = "free"
        /\ event_q # <<>> => consumer.pc # "broadcast"

\* C30: the snapshot a subscriber receives from a broadcast contains the
\* effect of the mutation that triggered it and of every mutation completed
\* before the snapshot was sent.
C30_SnapshotIsCurrent ==
    [][\A i \in 1..Len(inflight), ws \in Subscribers :
          SafeSendOk(i, ws) => ShowsPresent(inflight[i].payload)
      ]_vars

(***************************************************************************)
(* Claims about the status fields and the auto-pause scheduler, checked    *)
(* under SpecLife.                                                         *)
(***************************************************************************)
\* C31: in every reachable state danmaku_status = running implies
\* status = running, and a non-empty active_mode implies status = running:
\* no sequence of start, stop, configuration update, crash or failed start
\* shows a running chat client while the lifecycle is stopped.
C31_ClientStatusFollowsLifecycle ==
    /\ runtime.danmaku_status = "running" => runtime.status = "running"
    /\ runtime.active_mode # "" => runtime.status = "running"

\* C31 witness: stop_runtime has returned after cancelling a chat-client
\* task that was running, and the lifecycle is stopped.
C31_Witness ==
    /\ ret.op = "stop_runtime"
    /\ orphans > 0
    /\ runtime.status = "stopped"

\* The tick is due: the runtime is running and not paused, a trigger is
\* stored and the clock has reached it.
TickDue ==
    /\ runtime.status = "running"
    /\ ~runtime.queue_paused
    /\ runtime.queue_pause_until_ts # <<>>
    /\ now >= runtime.queue_pause_until_ts[1]

\* C32: a tick of the pause checker pauses the queue exactly when the tick
\* is due; it then sets queue_paused with the automatic reason, clears the
\* stored trigger and makes one broadcast.  A tick that is not due leaves
\* the pause flag alone and broadcasts nothing: the queue is never
\* auto-paused while stopped, while paused or before the stored trigger.
C32_TickPausesWhenDue ==
    [][ret'.op = "_pause_checker_loop" =>
         IF TickDue
         THEN /\ runtime'.queue_paused
              /\ runtime'.queue_pause_reason = "auto"
              /\ runtime'.queue_pause_until_ts = <<>>
              /\ Len(emitted') = 1
         ELSE /\ runtime'.queue_paused = runtime.queue_paused
              /\ runtime'.queue_pause_reason = runtime.queue_pause_reason
              /\ emitted' = <<>>
      ]_vars

(***************************************************************************)
(* Claim about the scheduler loop, checked under FairSched.                *)
(***************************************************************************)
\* A time of day is in effect, the runtime is running and un-paused, and
\* the clock has reached the stored trigger.
Armed ==
    /\ runtime.status = "running"
    /\ ~runtime.queue_paused
    /\ MinuteOfDay(runtime.queue_auto_pause_time) >= 0
    /\ runtime.queue_pause_until_ts # <<>>
    /\ now >= runtime.queue_pause_until_ts[1]

AutoPaused == runtime.queue_paused /\ runtime.queue_pause_reason = "auto"

\* C33: the scheduler loop never dies except by cancellation: an exception
\* raised inside a tick is swallowed and the loop goes on ticking, so that
\* with a valid auto-pause time configured, once the clock has reached the
\* trigger the queue is eventually auto-paused, unless before that the
\* runtime is stopped, paused by hand or re-armed, or the loop is cancelled
\* by the shutdown.
C33_TickerKeepsTicking ==
    Armed ~> (AutoPaused \/ ~Armed \/ pause_checker = "returned")

\* C33 witness: a tick raised while the pause was due, and the loop is
\* still there.
C33_Witness ==
    /\ Armed
    /\ ret.op = "_pause_checker_loop:except Exception"
    /\ pause_checker = "sleeping"

(***************************************************************************)
(* Claims about the stored trigger, checked under SpecLife.                *)
(***************************************************************************)
\* The day a minute of the clock falls on.
DayOf(t) == t \div (24 * 60)

C35_TriggerBelongsToTime ==
    runtime.queue_pause_until_ts # <<>> =>
        runtime.queue_pause_until_ts[1] % (24 * 60) =
            MinuteOfDay(runtime.queue_auto_pause_time)

(***************************************************************************)
(* Claim about the choice of the chat mode, checked under SpecMode.        *)
(***************************************************************************)
\* A string with a character that is not a blank.
HasText(s) == \E i \in 1..Len(s) : s[i] # " "

OpenLiveComplete(c) ==
    /\ HasText(c.bilibili.open_live.access_key)
    /\ HasText(c.bilibili.open_live.access_secret)
    /\ c.bilibili.open_live.app_id > 0
    /\ HasText(c.bilibili.open_live.identity_code)

WebComplete(c) ==
    HasText(c.bilibili.web.sessdata) /\ c.bilibili.web.room_id > 0

\* C36: the choice of the chat mode fails only if no mode has complete
\* credentials: with the preference auto, whenever the open-platform
\* credentials are complete or the web credentials (cookie and room) are
\* complete, start_runtime is not refused for want of a mode.
C36_AutoFindsMode ==
    (/\ ret.op = "start_runtime"
     /\ cfg.bilibili.mode = "auto"
     /\ OpenLiveComplete(cfg) \/ WebComplete(cfg)) =>
        ret.reason \notin NoModeReasons

(***************************************************************************)
(* Claim about the capacity under reconfiguration, checked under SpecCap.  *)
(***************************************************************************)
\* C37: the capacity invariant holds against the capacity now configured:
\* after update_config has installed a new max_queue while users are
\* queued, in every state the number of users held is at most
\* cfg.max_queue, and so is the total of every snapshot handed out.
C37_CapacityFollowsConfig ==
    /\ Len(current) + Len(waiting) <= cfg.max_queue
    /\ \A i \in 1..Len(emitted) :
          emitted[i].queue.total <= emitted[i].queue.max_queue

(***************************************************************************)
(* Claim about the tasks around the mutation lock, checked under FairLock. *)
(***************************************************************************)
\* C38: the controller is deadlock-free: with the consumer, suspended
\* producers, the pause checker, the chat-client task and its crash
\* handler, and start, stop, pause and configuration operations interleaved
\* in any order, the mutation lock is always released again, and no task
\* waits for ever for the lock or for a task that waits for it: time and
\* again the lock is free, no crash handler is waiting to record a failure
\* (it has recorded it or was cancelled), the consumer is not holding an
\* event it has yet to process, and no producer is suspended.
C38_NoDeadlock ==
    /\ []<>(lock = "free")
    /\ []<>(danmaku_task # "crashing")
    /\ []<>(consumer.pc # "process")
    /\ []<>(putters = <<>>)

\* C38 witness: while update_config holds the lock across the verification,
\* the crash handler of the chat-client task waits for the lock and a
\* producer is suspended on the full channel.
C38_Witness ==
    /\ lock = "update_config"
    /\ danmaku_task = "crashing"
    /\ putters # <<>>

(***************************************************************************)
(* Claims about what the snapshot reports, checked under SpecLife.         *)
(***************************************************************************)
\* C39: the reported chat-client status matches the task that exists: a
\* chat-client task is running (and pushing events) only while status is
\* running, danmaku_status is running and active_mode is set; when the
\* snapshot shows danmaku_status idle or error, or an empty active_mode,
\* no such task is running.
C39_TaskMatchesStatus ==
    danmaku_task = "running" =>
        /\ runtime.status = "running"
        /\ runtime.danmaku_status = "running"
        /\ runtime.active_mode # ""

\* The runtime fields a snapshot shows.
Visible(rt) ==
    <<rt.status, rt.danmaku_status, rt.danmaku_error, rt.active_mode,
      rt.queue_paused, rt.queue_pause_reason, rt.queue_auto_pause_time,
      rt.queue_pause_until_ts>>

\* C40: every change to a runtime field that the snapshot shows is followed
\* by a broadcast: an operation that has changed such a field and is over
\* (it is not suspended with the lock held) hands WsHub.broadcast a
\* snapshot showing the fields as they now are; this includes the fields
\* written by a failed start_runtime and by a tick that only re-arms the
\* trigger.
C40_ChangeIsBroadcast ==
    [][(Visible(runtime') # Visible(runtime) /\ lock' = "free") =>
         /\ Len(emitted') = 1
         /\ Visible(emitted'[1].runtime) = Visible(runtime')
      ]_vars

=============================================================================
